---- MODULE Spec2Model ----
(***************************************************************************)
(* Model of the video frame-diff tool selfdrive/ui/tests/diff/diff.py.     *)
(*                                                                         *)
(* main() hashes the frames of two videos, aligns the two hash lists with  *)
(* difflib.SequenceMatcher(autojunk=False), turns the non-equal opcodes    *)
(* into Chunks, extracts the clips of every chunk in a thread pool and     *)
(* classifies the run in generate_html_report.                             *)
(*                                                                         *)
(* Frame indices are 0-based as in the code; a[i] of the code is At(a, i). *)
(* A frame hash is a natural number.  SequenceMatcher is part of the       *)
(* Python standard library: its operators follow CPython's difflib.py and  *)
(* are mapped to the place where diff.py calls them.                       *)
(***************************************************************************)
EXTENDS Integers, Sequences, FiniteSets, TLC

\* ---------------------------------------------------------------- bounds
\* longest hash list drawn for a video
MaxLen == 3
\* number of distinct frame hashes drawn
NumHashes == 3
\* most frames the two drawn hash lists hold together
MaxFrames == 6
\* largest frame index drawn for a single call of extract_clip
MaxStart == 3
\* largest padding drawn for a single call, next to the 30 frames of the comment
MaxPad == 2
\* largest differing frame index and longest list of them drawn for compute_chunks
MaxIndex == 5
MaxIndices == 4
\* largest max_same_frames drawn
MaxSame == 2
\* most builder calls (add, wait, click) drawn for one script, and their largest frame count
MaxOps == 3
MaxWait == 2
\* longest recording drawn, most steps of a drawn swipe, and most frames the render
\* generator yields past a pump of the run
MaxActions == 2
MaxSteps == 2
MaxRender == 2
\* most toggles and clickable widgets of a screen, most items of a scroller
MaxWidgets == 1
MaxItems == 1
\* most references to widgets one widget holds, and the largest max_depth drawn
MaxRefs == 2
MaxDepth == 2

\* ------------------------------------------------------- program constants
CLIP_PADDING_BEFORE == 0
CLIP_PADDING_AFTER == 0
FPS == 60

VARIABLES
  pc,               \* position of main()
  hashes1,          \* hash list of video 1
  hashes2,          \* hash list of video 2
  queue,            \* get_matching_blocks: the work list of (alo, ahi, blo, bhi)
  flm,              \* find_longest_match: its arguments, row i, j2len and best
  matching_blocks,  \* get_matching_blocks: the blocks (i, j, k)
  opcodes,          \* get_opcodes: (tag, i1, i2, j1, j2)
  chunks,           \* compute_diff_chunks: the list of Chunk
  diff_frame_count, \* main: sum of max(v1_count, v2_count)
  tpc,              \* process_chunk: position of the task of chunk i
  clips,            \* process_chunk: the clips dict of the task of chunk i
  thumbs,           \* process_chunk: thumbnail (frame, path, source) of the task of chunk i
  files,            \* the files written below the output directory
  clip_sets,        \* extract_chunk_clips: the collected records
  result,           \* generate_html_report: the result text, as a record
  exit_code,        \* exit status of the process, -1 while it runs
  dthread,          \* the background thread that creates the full diff video
  fps,              \* get_video_fps: "unread", "ok" or "failed"
  error,            \* the exception that left main(), "" for none
  html_written,     \* the HTML report was written
  browser_opened,   \* webbrowser.open was called
  writes,           \* the (path, writer) pairs of the files written
  reads,            \* the (path, reader) pairs of the written files read back
  call,             \* a single call of a function, outside a run of main()
  variant,          \* replay.py run_replay: the layout variant it was called with
  main_layout,      \* replay.py run_replay: the class of the layout it instantiated
  script,           \* replay.py run_replay: the list build_script returned
  script_index,     \* replay.py run_replay: index of the next script entry
  frame,            \* replay.py run_replay: the frame counter
  send_fn,          \* replay.py run_replay: the local persistent sender
  _frame_fn,        \* replay_script.py: the global persistent sender
  mouse_events,     \* gui_app._mouse._events: the queued mouse events
  handled,          \* the (script index, frame) pairs of the entries handled so far
  sent,             \* the (frame, sender) pairs of the senders called so far
  recording,        \* explorer.py: the JSON value of the recording read or written
  _render_gen,      \* explorer.py UIEngine: the frames gui_app.render() still yields
  _frame,           \* explorer.py UIEngine: the frame counter
  _action_log,      \* explorer.py UIEngine: the actions executed
  next_action,      \* explorer.py run_replay: index of the next action of the recording
  action_log,       \* explorer.py run_auto_explore: the actions recorded
  applied,          \* the operations applied to the UI so far
  ui,               \* what the widget tree shows run_auto_explore
  visited,          \* explorer.py run_auto_explore: the widget keys visited
  holds,            \* introspect.py: the widgets each widget holds in its attributes
  max_depth,        \* introspect.py walk_widget_tree: its max_depth
  stack,            \* introspect.py walk_widget_tree: the calls under way, outermost first
  tree              \* introspect.py: the WidgetInfo walk_widget_tree returned

\* the variables of main() and of the background thread added to a run
\* the state of a run of replay.py
replayVars == <<variant, main_layout, script, script_index, frame, send_fn, _frame_fn,
                mouse_events, handled, sent>>

\* the state of a run of explorer.py, next to the mouse events
engineVars == <<recording, _render_gen, _frame, _action_log, next_action, action_log,
                applied, ui, visited>>

\* the state of a walk of the widget tree
walkVars == <<holds, max_depth, stack, tree>>

\* the state of the tools next to diff.py
extVars == <<replayVars, engineVars, walkVars>>

runVars == <<dthread, fps, error, html_written, browser_opened, call, extVars>>

\* the record of what the chunk tasks did
logVars == <<writes, reads>>

\* the hash lists and what compute_diff_chunks and the count derive from them
alignVars == <<hashes1, hashes2, queue, flm, matching_blocks, opcodes, chunks,
               diff_frame_count>>

\* the state of extract_chunk_clips
taskVars == <<tpc, clips, thumbs, files, clip_sets>>

vars == <<pc, hashes1, hashes2, queue, flm, matching_blocks, opcodes, chunks,
          diff_frame_count, tpc, clips, thumbs, files, clip_sets, result, exit_code,
          runVars, logVars>>

\* ---------------------------------------------------------------- helpers
At(s, i) == s[i + 1]

Max(x, y) == IF x >= y THEN x ELSE y

Min(x, y) == IF x <= y THEN x ELSE y

Abs(x) == IF x >= 0 THEN x ELSE 0 - x

Hashes == 0 .. (NumHashes - 1)

HashLists == UNION {[1 .. n -> Hashes] : n \in 0 .. MaxLen}

\* 100 identical frames
ScenarioV1 == [n \in 1 .. 100 |-> 0]

\* the same frames with frames 40-44 replaced and 3 frames appended
ScenarioV2 == [n \in 1 .. 103 |->
                 IF n - 1 \in 40 .. 44 THEN n - 40
                 ELSE IF n - 1 >= 100 THEN n - 95
                 ELSE 0]

\* hashes are only compared for equality, so the hash lists are drawn up to a
\* renaming of the hashes: over both lists a new hash is the least unused number
FirstUseOrder(s) == \A k \in 1 .. Len(s) : s[k] <= Cardinality({s[m] : m \in 1 .. (k - 1)})

\* the hash lists extract_framehashes may return for the two videos
VideoPairs ==
  {vp \in HashLists \X HashLists :
     Len(vp[1]) + Len(vp[2]) <= MaxFrames /\ FirstUseOrder(vp[1] \o vp[2])}
  \cup {<<ScenarioV1, ScenarioV2>>}

\* ------------------------------------------ difflib.SequenceMatcher
\* newj2len of one row i: the length of the common run ending at (i, j),
\* 0 where the dict has no entry
NewJ2Len(a, b, i, blo, bhi, j2len) ==
  [j \in blo .. (bhi - 1) |->
     IF At(a, i) = At(b, j)
       THEN (IF j - 1 \in DOMAIN j2len THEN j2len[j - 1] ELSE 0) + 1
       ELSE 0]

\* the inner loop over j, in increasing j: best is replaced whenever k > bestsize,
\* which leaves in best the first j that has the row's largest k when that k
\* exceeds the bestsize the row started with
ScanJ(newj2len, i, blo, bhi, best) ==
  LET js   == blo .. (bhi - 1)
      kmax == CHOOSE k \in {newj2len[j] : j \in js} : \A j \in js : newj2len[j] <= k
      jmin == CHOOSE j \in js : newj2len[j] = kmax /\ \A h \in js : newj2len[h] = kmax => j <= h
  IN  IF js # {} /\ kmax > best[3]
        THEN <<i - kmax + 1, jmin - kmax + 1, kmax>>
        ELSE best

\* first while loop: extend the block to the left over equal elements
RECURSIVE ExtendLeft(_, _, _, _, _)
ExtendLeft(a, b, alo, blo, best) ==
  IF best[1] > alo /\ best[2] > blo /\ At(a, best[1] - 1) = At(b, best[2] - 1)
    THEN ExtendLeft(a, b, alo, blo, <<best[1] - 1, best[2] - 1, best[3] + 1>>)
    ELSE best

\* second while loop: extend the block to the right over equal elements
RECURSIVE ExtendRight(_, _, _, _, _)
ExtendRight(a, b, ahi, bhi, best) ==
  IF best[1] + best[3] < ahi /\ best[2] + best[3] < bhi
     /\ At(a, best[1] + best[3]) = At(b, best[2] + best[3])
    THEN ExtendRight(a, b, ahi, bhi, <<best[1], best[2], best[3] + 1>>)
    ELSE best

\* the two while loops after the scan (no element is junk, so the two loops
\* over junk elements never run): (besti, bestj, bestsize) returned
Extended(a, b, alo, ahi, blo, bhi, best) ==
  ExtendRight(a, b, ahi, bhi, ExtendLeft(a, b, alo, blo, best))

\* tuple comparison of list.sort()
TupleLess(x, y) ==
  \/ x[1] < y[1]
  \/ x[1] = y[1] /\ x[2] < y[2]
  \/ x[1] = y[1] /\ x[2] = y[2] /\ x[3] < y[3]

RECURSIVE InsertSorted(_, _)
InsertSorted(s, x) ==
  IF s = <<>> THEN <<x>>
  ELSE IF TupleLess(x, Head(s)) THEN <<x>> \o s
  ELSE <<Head(s)>> \o InsertSorted(Tail(s), x)

\* matching_blocks.sort()
RECURSIVE SortBlocks(_)
SortBlocks(s) ==
  IF s = <<>> THEN <<>> ELSE InsertSorted(SortBlocks(Tail(s)), Head(s))

\* the loop that collapses adjacent blocks: cur is (i1, j1, k1)
RECURSIVE Collapse(_, _, _)
Collapse(blocks, cur, non_adjacent) ==
  IF blocks = <<>>
    THEN IF cur[3] # 0 THEN Append(non_adjacent, cur) ELSE non_adjacent
    ELSE LET x == Head(blocks)
         IN  IF cur[1] + cur[3] = x[1] /\ cur[2] + cur[3] = x[2]
               THEN Collapse(Tail(blocks), <<cur[1], cur[2], cur[3] + x[3]>>, non_adjacent)
               ELSE Collapse(Tail(blocks), x,
                             IF cur[3] # 0 THEN Append(non_adjacent, cur) ELSE non_adjacent)

\* the tail of get_matching_blocks: sort, collapse, append the dummy block
NonAdjacent(blocks, la, lb) ==
  Append(Collapse(SortBlocks(blocks), <<0, 0, 0>>, <<>>), <<la, lb, 0>>)

\* GapTag with the two one-sided tags exchanged
GapTagSwapped(i, j, ai, bj) ==
  IF i < ai /\ j < bj THEN "replace"
  ELSE IF i < ai THEN "insert"
  ELSE IF j < bj THEN "delete"
  ELSE ""

\* the tag get_opcodes gives to the gap before a block, "" for no gap
GapTag(i, j, ai, bj) ==
  IF i < ai /\ j < bj THEN "replace"
  ELSE IF i < ai THEN "delete"
  ELSE IF j < bj THEN "insert"
  ELSE ""

\* BlockOpcodes with the equal opcode one frame short in b
BlockOpcodesShortEqual(i, j, blk) ==
  LET ai   == blk[1]
      bj   == blk[2]
      size == blk[3]
      tag  == GapTag(i, j, ai, bj)
  IN  (IF tag # "" THEN <<<<tag, i, ai, j, bj>>>> ELSE <<>>)
      \o (IF size # 0 THEN <<<<"equal", ai, ai + size, bj, bj + size - 1>>>> ELSE <<>>)

\* the opcodes one matching block adds to answer
BlockOpcodes(i, j, blk) ==
  LET ai   == blk[1]
      bj   == blk[2]
      size == blk[3]
      tag  == GapTag(i, j, ai, bj)
  IN  (IF tag # "" THEN <<<<tag, i, ai, j, bj>>>> ELSE <<>>)
      \o (IF size # 0 THEN <<<<"equal", ai, ai + size, bj, bj + size>>>> ELSE <<>>)

\* get_opcodes: the loop over the matching blocks
RECURSIVE get_opcodes(_, _, _)
get_opcodes(blocks, i, j) ==
  IF blocks = <<>> THEN <<>>
  ELSE LET blk == Head(blocks)
       IN  BlockOpcodes(i, j, blk)
           \o get_opcodes(Tail(blocks), blk[1] + blk[3], blk[2] + blk[3])

\* ------------------------------------------------------ compute_diff_chunks
\* Chunk with the exclusive range ends taken as the inclusive ends
ChunkExclusiveEnd(op) ==
  [type |-> op[1],
   v1_start |-> op[2], v1_end |-> op[3], v1_count |-> op[3] - op[2],
   v2_start |-> op[4], v2_end |-> op[5], v2_count |-> op[5] - op[4]]

\* Chunk(type=tag, v1_start=i1, v1_end=i2 - 1, v1_count=i2 - i1, ...)
Chunk(op) ==
  [type |-> op[1],
   v1_start |-> op[2], v1_end |-> op[3] - 1, v1_count |-> op[3] - op[2],
   v2_start |-> op[4], v2_end |-> op[5] - 1, v2_count |-> op[5] - op[4]]

\* IsDiffOp without the filter on the tag
KeepEveryOp(op) == TRUE

\* the opcodes kept by the list comprehension
IsDiffOp(op) == op[1] # "equal"

RECURSIVE DiffOps(_)
DiffOps(ops) ==
  IF ops = <<>> THEN <<>>
  ELSE (IF IsDiffOp(Head(ops)) THEN <<Head(ops)>> ELSE <<>>) \o DiffOps(Tail(ops))

\* ChunksOf with the chunks in the reverse order
ChunksOfReversed(ops) ==
  [n \in 1 .. Len(DiffOps(ops)) |-> Chunk(DiffOps(ops)[Len(DiffOps(ops)) + 1 - n])]

\* the Chunks of the non-equal opcodes, in the order of the opcodes
ChunksOf(ops) == [n \in 1 .. Len(DiffOps(ops)) |-> Chunk(DiffOps(ops)[n])]

\* sum(max(c.v1_count, c.v2_count) for c in chunks)
RECURSIVE DiffFrameCount(_)
DiffFrameCount(cs) ==
  IF cs = <<>> THEN 0
  ELSE Max(Head(cs).v1_count, Head(cs).v2_count) + DiffFrameCount(Tail(cs))

\* ------------------------------------------------------------ process_chunk
None == <<>>

\* ClipPath without the chunk index in the file name
ClipPathNoIndex(i, suffix) == <<0, suffix>>

\* output_dir / f"{i:03d}_video1.mp4" and the like, in the chunks folder: the chunk
\* index and the suffix
ClipPath(i, suffix) == <<i, suffix>>

HasVideo1(chunk_type) == chunk_type # "insert"

\* HasVideo2 with the test of the video1 section
HasVideo2AsVideo1(chunk_type) == chunk_type # "insert"

HasVideo2(chunk_type) == chunk_type # "delete"

HasDiff(chunk_type) == chunk_type = "replace"

\* extract_clip with the frames after the clip enlarged by the frames the clamp took
\* from the frames before it
ExtractClipCompensated(start_frame, end_frame, before, after) ==
  LET padded_start   == Max(0, start_frame - before)
      padding_before == start_frame - padded_start
  IN  [padded_start   |-> padded_start,
       padding_before |-> padding_before,
       total_frames   |-> (end_frame - start_frame + 1) + before + after]

\* extract_clip, for CLIP_PADDING_BEFORE = before and CLIP_PADDING_AFTER = after: where
\* the clip starts, the frames before the chunk, and the number of frames written
extract_clip(start_frame, end_frame, before, after) ==
  LET padded_start   == Max(0, start_frame - before)
      padding_before == start_frame - padded_start
  IN  [padded_start   |-> padded_start,
       padding_before |-> padding_before,
       total_frames   |-> (end_frame - start_frame + 1) + padding_before + after]

\* ThumbnailFor with the content counted in video 2 for every type of chunk
ThumbnailForVideo2Count(i, chunk, before) ==
  LET padding_used  == Min(IF chunk.type # "insert" THEN chunk.v1_start ELSE chunk.v2_start,
                           before)
      content_count == chunk.v2_count
      thumb_ext     == IF chunk.type = "replace" THEN "thumb.png" ELSE "thumb.jpg"
  IN  [frame  |-> padding_used + content_count \div 2,
       path   |-> ClipPath(i, thumb_ext),
       source |-> IF chunk.type = "replace" THEN ClipPath(i, "diff.mp4")
                  ELSE IF chunk.type = "delete" THEN ClipPath(i, "video1.mp4")
                  ELSE ClipPath(i, "video2.mp4")]

\* the thumbnail section for CLIP_PADDING_BEFORE = before: frame, path and source clip
ThumbnailFor(i, chunk, before) ==
  LET padding_used  == Min(IF chunk.type # "insert" THEN chunk.v1_start ELSE chunk.v2_start,
                           before)
      content_count == IF chunk.type # "insert" THEN chunk.v1_count ELSE chunk.v2_count
      thumb_ext     == IF chunk.type = "replace" THEN "thumb.png" ELSE "thumb.jpg"
  IN  [frame  |-> padding_used + content_count \div 2,
       path   |-> ClipPath(i, thumb_ext),
       source |-> IF chunk.type = "replace" THEN ClipPath(i, "diff.mp4")
                  ELSE IF chunk.type = "delete" THEN ClipPath(i, "video1.mp4")
                  ELSE ClipPath(i, "video2.mp4")]

\* the thumbnail section as the module runs it
Thumbnail(i, chunk) == ThumbnailFor(i, chunk, CLIP_PADDING_BEFORE)

\* the dict process_chunk returns
ClipSet(chunk, cl, th) ==
  [type |-> chunk.type, clips |-> cl, thumb |-> th.path,
   v1_start |-> chunk.v1_start, v1_end |-> chunk.v1_end, v1_count |-> chunk.v1_count,
   v2_start |-> chunk.v2_start, v2_end |-> chunk.v2_end, v2_count |-> chunk.v2_count]

\* ------------------------------------------------------ generate_html_report
\* diff_frame_count / total_frames * 100 as the fraction (numerator, denominator)
Percent(count, total_frames) == <<count * 100, total_frames>>

\* the result text of a run without a differing frame
IdenticalText(total_frames) ==
  [kind |-> "identical", count |-> 0, total_frames |-> total_frames,
   percent |-> None, longer |-> 0, by |-> 0]

\* the result text of a run with differing frames
DifferentText(count, total_frames, frame_delta) ==
  [kind |-> "different", count |-> count, total_frames |-> total_frames,
   percent |-> Percent(count, total_frames),
   longer |-> IF frame_delta # 0 THEN (IF frame_delta > 0 THEN 2 ELSE 1) ELSE 0,
   by |-> IF frame_delta # 0 THEN Abs(frame_delta) ELSE 0]

\* no result text: the division by total_frames = 0 raised
ZeroDivisionError ==
  [kind |-> "ZeroDivisionError", count |-> 0, total_frames |-> 0,
   percent |-> None, longer |-> 0, by |-> 0]

\* ResultText with frame_delta taken as video 1 minus video 2
ResultTextDeltaSwapped(count, frame_counts) ==
  LET total_frames == Max(frame_counts[1], frame_counts[2])
      frame_delta  == frame_counts[1] - frame_counts[2]
  IN  IF count = 0 THEN IdenticalText(total_frames)
      ELSE IF total_frames = 0 THEN ZeroDivisionError
      ELSE DifferentText(count, total_frames, frame_delta)

\* ResultText with the percentage computed before the test of the count
ResultTextEagerPercent(count, frame_counts) ==
  LET total_frames == Max(frame_counts[1], frame_counts[2])
      frame_delta  == frame_counts[2] - frame_counts[1]
  IN  IF total_frames = 0 THEN ZeroDivisionError
      ELSE IF count = 0 THEN IdenticalText(total_frames)
      ELSE DifferentText(count, total_frames, frame_delta)

\* result_text: which sentence is built and the numbers in it; the conditional
\* expression divides by total_frames only when diff_frame_count is not 0
ResultText(count, frame_counts) ==
  LET total_frames == Max(frame_counts[1], frame_counts[2])
      frame_delta  == frame_counts[2] - frame_counts[1]
  IN  IF count = 0 THEN IdenticalText(total_frames)
      ELSE IF total_frames = 0 THEN ZeroDivisionError
      ELSE DifferentText(count, total_frames, frame_delta)

NoResult ==
  [kind |-> "none", count |-> 0, total_frames |-> 0, percent |-> None,
   longer |-> 0, by |-> 0]

\* ------------------------------------------------------------------- paths
\* DIFF_OUT_DIR / diff_video_name, written by the background thread
DiffVideoPath == <<"output_stem.mp4">>

\* DIFF_OUT_DIR / args.output
ReportPath == <<"output_stem.html">>

\* the writers and readers of files
MainThread == <<"main">>

DiffThread == <<"diff_thread">>

ChunkTask(i) == <<"process_chunk", i>>

\* ----------------------------------------------------------------- actions
\* flm outside find_longest_match
NoScan == [alo |-> 0, ahi |-> 0, blo |-> 0, bhi |-> 0, i |-> 0, j2len |-> <<>>,
           best |-> <<0, 0, 0>>]

\* call while no single function call is made
NoCall == [fn |-> "none"]

\* nothing of a run of main() has happened
Unstarted ==
  /\ hashes1 = <<>>
  /\ hashes2 = <<>>
  /\ queue = <<>>
  /\ flm = NoScan
  /\ matching_blocks = <<>>
  /\ opcodes = <<>>
  /\ chunks = <<>>
  /\ diff_frame_count = 0
  /\ tpc = <<>>
  /\ clips = <<>>
  /\ thumbs = <<>>
  /\ files = {}
  /\ clip_sets = <<>>
  /\ result = NoResult
  /\ exit_code = -1
  /\ dthread = "unstarted"
  /\ fps = "unread"
  /\ error = ""
  /\ html_written = FALSE
  /\ browser_opened = FALSE
  /\ writes = {}
  /\ reads = {}

\* ui while run_auto_explore does not run
NoUi == [widgets |-> <<>>, scroller |-> FALSE, items |-> 0, item_placed |-> FALSE,
         item_button |-> FALSE, modal |-> FALSE, pair |-> FALSE]

\* tree while walk_widget_tree has not returned
NoTree == [widget |-> "", attr_name |-> <<>>, depth |-> 0, children |-> <<>>]

\* no widget tree is walked
NotWalking ==
  /\ holds = <<>>
  /\ max_depth = 0
  /\ stack = <<>>
  /\ tree = NoTree

\* nothing of a run of replay.py or explorer.py has happened
ReplayUnstarted ==
  /\ NotWalking
  /\ variant = ""
  /\ main_layout = ""
  /\ script = <<>>
  /\ script_index = 0
  /\ frame = 0
  /\ send_fn = None
  /\ _frame_fn = None
  /\ mouse_events = <<>>
  /\ handled = <<>>
  /\ sent = <<>>
  /\ recording = <<>>
  /\ _render_gen = None
  /\ _frame = 0
  /\ _action_log = <<>>
  /\ next_action = 0
  /\ action_log = <<>>
  /\ applied = <<>>
  /\ ui = NoUi
  /\ visited = {}

Init ==
  /\ pc = "args"
  /\ call = NoCall
  /\ Unstarted
  /\ ReplayUnstarted

\* "missing = [...]" is empty: both video files exist
CheckVideos ==
  /\ pc = "args"
  /\ pc' = "thread"
  /\ UNCHANGED <<alignVars, taskVars, result, exit_code, runVars, logVars>>

\* a video file is missing: parser.error prints the message and exits with status 2
MissingVideo ==
  /\ pc = "args"
  /\ error' = "parser.error"
  /\ exit_code' = 2
  /\ pc' = "aborted"
  /\ UNCHANGED <<alignVars, taskVars, result, dthread, fps, html_written, browser_opened,
                 call, extVars, logVars>>

\* "[1/4]": diff_thread.start()
StartDiffThread ==
  /\ pc = "thread"
  /\ dthread' = "running"
  /\ pc' = "hash"
  /\ UNCHANGED <<alignVars, taskVars, result, exit_code, fps, error, html_written,
                 browser_opened, call, extVars, logVars>>

\* create_diff_video in the background thread returns: the full diff video is written
DiffThreadDone ==
  /\ dthread = "running"
  /\ dthread' = "done"
  /\ files' = files \cup {DiffVideoPath}
  /\ writes' = writes \cup {<<DiffVideoPath, DiffThread>>}
  /\ UNCHANGED <<pc, alignVars, tpc, clips, thumbs, clip_sets, result, exit_code, fps,
                 error, html_written, browser_opened, call, extVars, reads>>

\* create_diff_video in the background thread raises CalledProcessError: the
\* exception ends the thread and reaches no other thread
DiffThreadFail ==
  /\ dthread = "running"
  /\ dthread' = "failed"
  /\ UNCHANGED <<pc, alignVars, taskVars, result, exit_code, fps, error, html_written,
                 browser_opened, call, extVars, logVars>>

\* extract_framehashes raises CalledProcessError for one of the videos
HashFail ==
  /\ pc = "hash"
  /\ error' = "extract_framehashes"
  /\ pc' = "raise"
  /\ UNCHANGED <<alignVars, taskVars, result, exit_code, dthread, fps, html_written,
                 browser_opened, call, extVars, logVars>>

\* get_video_frame_hashes, and the start of get_matching_blocks:
\* queue = [(0, la, 0, lb)], matching_blocks = []
HashFrames ==
  /\ pc = "hash"
  /\ \E vp \in VideoPairs :
       /\ hashes1' = vp[1]
       /\ hashes2' = vp[2]
       /\ queue' = <<<<0, Len(vp[1]), 0, Len(vp[2])>>>>
  /\ matching_blocks' = <<>>
  /\ flm' = NoScan
  /\ pc' = "match"
  /\ UNCHANGED <<runVars, logVars, opcodes, chunks, diff_frame_count, tpc, clips, thumbs, files,
                 clip_sets, result, exit_code>>

\* the queue entries one iteration pushes after the block x was found in q
Pushed(q, x) ==
  (IF q[1] < x[1] /\ q[3] < x[2] THEN <<<<q[1], x[1], q[3], x[2]>>>> ELSE <<>>)
  \o (IF x[1] + x[3] < q[2] /\ x[2] + x[3] < q[4]
        THEN <<<<x[1] + x[3], q[2], x[2] + x[3], q[4]>>>> ELSE <<>>)

\* "alo, ahi, blo, bhi = queue.pop()" and the entry of find_longest_match:
\* besti, bestj, bestsize = alo, blo, 0 and j2len = {}
PopQueue ==
  /\ pc = "match"
  /\ queue # <<>>
  /\ LET q == queue[Len(queue)]
     IN  flm' = [alo |-> q[1], ahi |-> q[2], blo |-> q[3], bhi |-> q[4],
                 i |-> q[1], j2len |-> <<>>, best |-> <<q[1], q[3], 0>>]
  /\ queue' = SubSeq(queue, 1, Len(queue) - 1)
  /\ pc' = "scan"
  /\ UNCHANGED <<runVars, logVars, hashes1, hashes2, matching_blocks, opcodes, chunks, diff_frame_count,
                 tpc, clips, thumbs, files, clip_sets, result, exit_code>>

\* one iteration of "for i in range(alo, ahi)" in find_longest_match
ScanRow ==
  /\ pc = "scan"
  /\ flm.i < flm.ahi
  /\ LET newj2len == NewJ2Len(hashes1, hashes2, flm.i, flm.blo, flm.bhi, flm.j2len)
     IN  flm' = [flm EXCEPT !.i = flm.i + 1,
                            !.j2len = newj2len,
                            !.best = ScanJ(newj2len, flm.i, flm.blo, flm.bhi, flm.best)]
  /\ UNCHANGED <<runVars, logVars, pc, hashes1, hashes2, queue, matching_blocks, opcodes, chunks,
                 diff_frame_count, tpc, clips, thumbs, files, clip_sets, result, exit_code>>

\* the end of find_longest_match and the rest of the iteration of "while queue"
EndScan ==
  /\ pc = "scan"
  /\ flm.i >= flm.ahi
  /\ LET q == <<flm.alo, flm.ahi, flm.blo, flm.bhi>>
         x == Extended(hashes1, hashes2, flm.alo, flm.ahi, flm.blo, flm.bhi, flm.best)
     IN  IF x[3] # 0
           THEN /\ matching_blocks' = Append(matching_blocks, x)
                /\ queue' = queue \o Pushed(q, x)
           ELSE /\ matching_blocks' = matching_blocks
                /\ queue' = queue
  /\ flm' = NoScan
  /\ pc' = "match"
  /\ UNCHANGED <<runVars, logVars, hashes1, hashes2, opcodes, chunks, diff_frame_count, tpc, clips,
                 thumbs, files, clip_sets, result, exit_code>>

\* the rest of get_matching_blocks once the queue is empty
FinishMatch ==
  /\ pc = "match"
  /\ queue = <<>>
  /\ matching_blocks' = NonAdjacent(matching_blocks, Len(hashes1), Len(hashes2))
  /\ pc' = "opcodes"
  /\ UNCHANGED <<runVars, logVars, hashes1, hashes2, queue, flm, opcodes, chunks, diff_frame_count, tpc, clips,
                 thumbs, files, clip_sets, result, exit_code>>

\* matcher.get_opcodes()
GetOpcodes ==
  /\ pc = "opcodes"
  /\ opcodes' = get_opcodes(matching_blocks, 0, 0)
  /\ pc' = "chunks"
  /\ UNCHANGED <<runVars, logVars, hashes1, hashes2, queue, flm, matching_blocks, chunks, diff_frame_count, tpc,
                 clips, thumbs, files, clip_sets, result, exit_code>>

\* the rest of compute_diff_chunks: filter the equal opcodes, build the Chunks
BuildChunks ==
  /\ pc = "chunks"
  /\ chunks' = ChunksOf(opcodes)
  /\ pc' = "count"
  /\ UNCHANGED <<runVars, logVars, hashes1, hashes2, queue, flm, matching_blocks, opcodes, diff_frame_count, tpc,
                 clips, thumbs, files, clip_sets, result, exit_code>>

\* diff_frame_count = sum(...), then "if chunks:"
CountFrames ==
  /\ pc = "count"
  /\ diff_frame_count' = DiffFrameCount(chunks)
  /\ pc' = IF chunks # <<>> THEN "fps" ELSE "report"
  /\ UNCHANGED <<hashes1, hashes2, queue, flm, matching_blocks, opcodes, chunks, taskVars,
                 result, exit_code, runVars, logVars>>

\* fps = get_video_fps(video1)
GetFps ==
  /\ pc = "fps"
  /\ fps' = "ok"
  /\ pc' = "extract"
  /\ UNCHANGED <<alignVars, taskVars, result, exit_code, dthread, error, html_written,
                 browser_opened, call, extVars, logVars>>

\* get_video_fps raises: ffprobe fails or r_frame_rate cannot be parsed
FpsFail ==
  /\ pc = "fps"
  /\ fps' = "failed"
  /\ error' = "get_video_fps"
  /\ pc' = "raise"
  /\ UNCHANGED <<alignVars, taskVars, result, exit_code, dthread, html_written,
                 browser_opened, call, extVars, logVars>>

\* extract_chunk_clips up to the submission of one task per chunk
SubmitChunks ==
  /\ pc = "extract"
  /\ tpc' = [n \in 1 .. Len(chunks) |-> "queued"]
  /\ clips' = [n \in 1 .. Len(chunks) |-> [video1 |-> None, video2 |-> None, diff |-> None]]
  /\ thumbs' = [n \in 1 .. Len(chunks) |-> None]
  /\ clip_sets' = <<>>
  /\ pc' = "collect"
  /\ UNCHANGED <<alignVars, files, result, exit_code, runVars, logVars>>

\* max_workers = min(8, len(chunks))
MaxWorkers == Min(8, Len(chunks))

Running == {n \in 1 .. Len(tpc) : tpc[n] \notin {"queued", "done", "failed"}}

\* the section of process_chunk runs a subprocess for a chunk of the given type:
\* the "if" at the head of the section holds (the thumbnail section has none)
RunsTool(chunk_type, section) ==
  \/ section = "video1" /\ HasVideo1(chunk_type)
  \/ section = "video2" /\ HasVideo2(chunk_type)
  \/ section = "diff" /\ HasDiff(chunk_type)
  \/ section = "thumb"

\* the sections of process_chunk that run for a chunk of the given type, in order
Sections(chunk_type) ==
  SelectSeq(<<"video1", "video2", "diff", "thumb">>,
            LAMBDA section : RunsTool(chunk_type, section))

\* where the task stands after the given section: at the next section that runs, or
\* at the return
After(chunk_type, section) ==
  LET secs == Sections(chunk_type)
      k    == CHOOSE k \in 1 .. Len(secs) : secs[k] = section
  IN  IF k < Len(secs) THEN secs[k + 1] ELSE "done"

\* a free worker takes the oldest queued task: process_chunk(i, chunk) begins and
\* reaches its first subprocess
StartTask(n) ==
  /\ n \in 1 .. Len(tpc)
  /\ tpc[n] = "queued"
  /\ \A m \in 1 .. (n - 1) : tpc[m] # "queued"
  /\ Cardinality(Running) < MaxWorkers
  /\ tpc' = [tpc EXCEPT ![n] = Sections(chunks[n].type)[1]]
  /\ UNCHANGED <<pc, alignVars, clips, thumbs, files, clip_sets, result, exit_code,
                 runVars, logVars>>

\* --- video1 clip ---   (the task of chunks[n] has index i = n - 1)
TaskVideo1(n) ==
  /\ n \in 1 .. Len(tpc)
  /\ tpc[n] = "video1"
  /\ files' = files \cup {ClipPath(n - 1, "video1.mp4")}
  /\ writes' = writes \cup {<<ClipPath(n - 1, "video1.mp4"), ChunkTask(n - 1)>>}
  /\ clips' = [clips EXCEPT ![n].video1 = ClipPath(n - 1, "video1.mp4")]
  /\ tpc' = [tpc EXCEPT ![n] = After(chunks[n].type, "video1")]
  /\ UNCHANGED <<pc, alignVars, thumbs, clip_sets, result, exit_code, runVars, reads>>

\* --- video2 clip ---
TaskVideo2(n) ==
  /\ n \in 1 .. Len(tpc)
  /\ tpc[n] = "video2"
  /\ files' = files \cup {ClipPath(n - 1, "video2.mp4")}
  /\ writes' = writes \cup {<<ClipPath(n - 1, "video2.mp4"), ChunkTask(n - 1)>>}
  /\ clips' = [clips EXCEPT ![n].video2 = ClipPath(n - 1, "video2.mp4")]
  /\ tpc' = [tpc EXCEPT ![n] = After(chunks[n].type, "video2")]
  /\ UNCHANGED <<pc, alignVars, thumbs, clip_sets, result, exit_code, runVars, reads>>

\* --- diff clip ---: create_diff_video(v1_clip, v2_clip, diff_clip)
TaskDiff(n) ==
  /\ n \in 1 .. Len(tpc)
  /\ tpc[n] = "diff"
  /\ files' = files \cup {ClipPath(n - 1, "diff.mp4")}
  /\ writes' = writes \cup {<<ClipPath(n - 1, "diff.mp4"), ChunkTask(n - 1)>>}
  /\ reads' = reads \cup {<<ClipPath(n - 1, "video1.mp4"), ChunkTask(n - 1)>>,
                          <<ClipPath(n - 1, "video2.mp4"), ChunkTask(n - 1)>>}
  /\ clips' = [clips EXCEPT ![n].diff = ClipPath(n - 1, "diff.mp4")]
  /\ tpc' = [tpc EXCEPT ![n] = After(chunks[n].type, "diff")]
  /\ UNCHANGED <<pc, alignVars, thumbs, clip_sets, result, exit_code, runVars>>

\* --- thumbnail ---, and the return
TaskThumb(n) ==
  /\ n \in 1 .. Len(tpc)
  /\ tpc[n] = "thumb"
  /\ thumbs' = [thumbs EXCEPT ![n] = Thumbnail(n - 1, chunks[n])]
  /\ files' = files \cup {Thumbnail(n - 1, chunks[n]).path}
  /\ writes' = writes \cup {<<Thumbnail(n - 1, chunks[n]).path, ChunkTask(n - 1)>>}
  /\ reads' = reads \cup {<<Thumbnail(n - 1, chunks[n]).source, ChunkTask(n - 1)>>}
  /\ tpc' = [tpc EXCEPT ![n] = After(chunks[n].type, "thumb")]
  /\ UNCHANGED <<pc, alignVars, clips, clip_sets, result, exit_code, runVars>>

\* subprocess.run(..., check=True) raises CalledProcessError in the section at which
\* the task stands: the exception is stored in the task's future
TaskFail(n) ==
  /\ n \in 1 .. Len(tpc)
  /\ tpc[n] \in {"video1", "video2", "diff", "thumb"}
  /\ tpc' = [tpc EXCEPT ![n] = "failed"]
  /\ UNCHANGED <<pc, alignVars, clips, thumbs, files, clip_sets, result, exit_code,
                 runVars, writes, reads>>

\* NextFuture with the futures taken from the last submitted to the first
NextFutureLastFirst == Len(chunks) - Len(clip_sets)

\* "for future in futures": the future whose result is taken next, in the order
\* of submission
NextFuture == Len(clip_sets) + 1

\* clip_sets.append(future.result()) for a task that returned
Collect ==
  /\ pc = "collect"
  /\ Len(clip_sets) < Len(chunks)
  /\ LET n == NextFuture
     IN  /\ tpc[n] = "done"
         /\ clip_sets' = Append(clip_sets, ClipSet(chunks[n], clips[n], thumbs[n]))
  /\ UNCHANGED <<pc, alignVars, tpc, clips, thumbs, files, result, exit_code, runVars,
                 logVars>>

\* future.result() raises the exception of a task that failed; the exception leaves
\* the for loop and enters the exit of the "with ThreadPoolExecutor" block
CollectRaise ==
  /\ pc = "collect"
  /\ Len(clip_sets) < Len(chunks)
  /\ tpc[NextFuture] = "failed"
  /\ error' = "process_chunk"
  /\ pc' = "shutdown"
  /\ UNCHANGED <<alignVars, taskVars, result, exit_code, dthread, fps, html_written,
                 browser_opened, call, extVars, logVars>>

\* AfterPoolExit with the exception caught around the pool: main() goes on to the report
AfterPoolExitCaught == "report"

\* where main() stands once the with block has been left by an exception: nothing
\* catches it in extract_chunk_clips or in main()
AfterPoolExit == "raise"

\* executor.shutdown(wait=True) returns when every submitted task has ended; the
\* exception then leaves extract_chunk_clips
PoolShutdown ==
  /\ pc = "shutdown"
  /\ \A n \in 1 .. Len(tpc) : tpc[n] \in {"done", "failed"}
  /\ pc' = AfterPoolExit
  /\ UNCHANGED <<alignVars, taskVars, result, exit_code, runVars, logVars>>

\* extract_chunk_clips returns clip_sets
ExtractDone ==
  /\ pc = "collect"
  /\ Len(clip_sets) = Len(chunks)
  /\ pc' = "report"
  /\ UNCHANGED <<alignVars, taskVars, result, exit_code, runVars, logVars>>

\* generate_html_report
GenerateReport ==
  /\ pc = "report"
  /\ LET text == ResultText(diff_frame_count, <<Len(hashes1), Len(hashes2)>>)
     IN  /\ result' = text
         /\ IF text.kind = "ZeroDivisionError"
              THEN error' = "generate_html_report" /\ pc' = "raise"
              ELSE error' = error /\ pc' = "write"
  /\ UNCHANGED <<alignVars, taskVars, exit_code, dthread, fps, html_written,
                 browser_opened, call, extVars, logVars>>

\* "with open(output_path, 'w') as f: f.write(html)"
WriteReport ==
  /\ pc = "write"
  /\ html_written' = TRUE
  /\ files' = files \cup {ReportPath}
  /\ writes' = writes \cup {<<ReportPath, MainThread>>}
  /\ pc' = "open"
  /\ UNCHANGED <<alignVars, tpc, clips, thumbs, clip_sets, result, exit_code, dthread,
                 fps, error, browser_opened, call, extVars, reads>>

\* "if not args.no_open": webbrowser.open(...)
OpenBrowser ==
  /\ pc = "open"
  /\ browser_opened' = TRUE
  /\ pc' = "join"
  /\ UNCHANGED <<alignVars, taskVars, result, exit_code, dthread, fps, error,
                 html_written, call, extVars, logVars>>

\* the run was started with --no-open
SkipBrowser ==
  /\ pc = "open"
  /\ pc' = "join"
  /\ UNCHANGED <<alignVars, taskVars, result, exit_code, runVars, logVars>>

\* JoinDiffThread without the wait: main() goes on whatever the thread does
JoinDiffThreadNoWait ==
  /\ pc = "join"
  /\ pc' = "exit"
  /\ UNCHANGED <<alignVars, taskVars, result, exit_code, runVars, logVars>>

\* diff_thread.join() returns once the background thread has ended
JoinDiffThread ==
  /\ pc = "join"
  /\ dthread \in {"done", "failed"}
  /\ pc' = "exit"
  /\ UNCHANGED <<alignVars, taskVars, result, exit_code, runVars, logVars>>

\* return 0 if diff_frame_count == 0 else 1, and sys.exit of that value
Exit ==
  /\ pc = "exit"
  /\ exit_code' = IF diff_frame_count = 0 THEN 0 ELSE 1
  /\ pc' = "done"
  /\ UNCHANGED <<alignVars, taskVars, result, runVars, logVars>>

\* an exception left main(): the traceback is printed, the interpreter waits for the
\* background thread (it is not a daemon) and exits with status 1
UncaughtException ==
  /\ pc = "raise"
  /\ dthread # "running"
  /\ exit_code' = 1
  /\ pc' = "aborted"
  /\ UNCHANGED <<alignVars, taskVars, result, runVars, logVars>>

Next ==
  \/ CheckVideos
  \/ MissingVideo
  \/ StartDiffThread
  \/ DiffThreadDone
  \/ DiffThreadFail
  \/ HashFrames
  \/ HashFail
  \/ PopQueue
  \/ ScanRow
  \/ EndScan
  \/ FinishMatch
  \/ GetOpcodes
  \/ BuildChunks
  \/ CountFrames
  \/ GetFps
  \/ FpsFail
  \/ SubmitChunks
  \/ \E n \in 1 .. Len(tpc) : StartTask(n)
  \/ \E n \in 1 .. Len(tpc) : TaskVideo1(n)
  \/ \E n \in 1 .. Len(tpc) : TaskVideo2(n)
  \/ \E n \in 1 .. Len(tpc) : TaskDiff(n)
  \/ \E n \in 1 .. Len(tpc) : TaskThumb(n)
  \/ \E n \in 1 .. Len(tpc) : TaskFail(n)
  \/ Collect
  \/ CollectRaise
  \/ PoolShutdown
  \/ ExtractDone
  \/ GenerateReport
  \/ WriteReport
  \/ OpenBrowser
  \/ SkipBrowser
  \/ JoinDiffThread
  \/ Exit
  \/ UncaughtException

Spec == Init /\ [][Next]_vars

\* ------------------------------------------------------------ compute_chunks
\* the tolerance-merge chunking of the specification (spec.md, "An alternate policy"):
\* the module that holds it is not among the sources
\* max_same_frames when the caller gives none
DefaultMaxSameFrames == 0

\* SameFramesBetween counted as the distance of the two indices
SameFramesBetweenAsDistance(previous, index) == index - previous

\* the identical frames between two differing frame indices previous < index
SameFramesBetween(previous, index) == index - previous - 1

\* compute_chunks(indices, max_same_frames): an index joins the chunk of the index
\* before it when at most max_same_frames identical frames lie between them, and
\* starts a new chunk otherwise
RECURSIVE compute_chunks(_, _)
compute_chunks(indices, max_same_frames) ==
  IF indices = <<>> THEN <<>>
  ELSE LET index  == indices[Len(indices)]
           before == compute_chunks(SubSeq(indices, 1, Len(indices) - 1), max_same_frames)
       IN  IF before = <<>> THEN <<<<index>>>>
           ELSE LET last == before[Len(before)]
                IN  IF SameFramesBetween(last[Len(last)], index) <= max_same_frames
                      THEN [before EXCEPT ![Len(before)] = Append(last, index)]
                      ELSE Append(before, <<index>>)

\* ------------------------------------------------------------ single calls
\* the paddings drawn for CLIP_PADDING_BEFORE and CLIP_PADDING_AFTER
Paddings == (0 .. MaxPad) \cup {30}

\* the calls extract_clip(video_path, start_frame, end_frame, output_path, fps) with
\* start_frame <= end_frame, under each pair of paddings
ExtractClipCalls ==
  {[fn |-> "extract_clip", start_frame |-> s, end_frame |-> e, before |-> b,
    after |-> a, ret |-> None] :
     s \in 0 .. MaxStart, e \in 0 .. MaxStart, b \in Paddings, a \in Paddings}

\* the opcodes a chunk can come from: a non-empty range where the tag has one
DiffOpcodes ==
  {op \in {"replace", "delete", "insert"} \X (0 .. MaxStart) \X (0 .. MaxStart + 1)
             \X (0 .. MaxStart) \X (0 .. MaxStart + 1) :
     /\ op[2] <= op[3]
     /\ op[4] <= op[5]
     /\ op[1] = GapTag(op[2], op[4], op[3], op[5])}

\* the thumbnail sections of process_chunk(i, chunk), under each padding
ThumbnailCalls ==
  {[fn |-> "thumbnail", i |-> i, chunk |-> Chunk(op), before |-> b, ret |-> None] :
     i \in 0 .. 1, op \in DiffOpcodes, b \in Paddings}

\* the increasing lists of differing frame indices
IndexLists ==
  {s \in UNION {[1 .. n -> 0 .. MaxIndex] : n \in 0 .. MaxIndices} :
     \A k \in 1 .. (Len(s) - 1) : s[k] < s[k + 1]}
  \cup {<<5, 6, 9, 20>>}

\* the calls compute_chunks(indices) and compute_chunks(indices, max_same_frames)
ComputeChunksCalls ==
  {[fn |-> "compute_chunks", indices |-> s, given |-> g, max_same_frames |-> m,
    ret |-> None] :
     s \in IndexLists, g \in BOOLEAN, m \in 0 .. MaxSame}

InitCalls ==
  /\ pc = "call"
  /\ call \in {c \in ExtractClipCalls : c.start_frame <= c.end_frame}
              \cup ThumbnailCalls
              \cup {c \in ComputeChunksCalls : c.given \/ c.max_same_frames = 0}
  /\ Unstarted
  /\ ReplayUnstarted

\* the call of extract_clip returns (the subprocess succeeds)
CallExtractClip ==
  /\ pc = "call"
  /\ call.fn = "extract_clip"
  /\ call' = [call EXCEPT !.ret = extract_clip(call.start_frame, call.end_frame,
                                               call.before, call.after)]
  /\ pc' = "returned"
  /\ UNCHANGED <<alignVars, taskVars, result, exit_code, dthread, fps, error,
                 html_written, browser_opened, extVars, logVars>>

\* the thumbnail section of process_chunk runs (the subprocess succeeds)
CallThumbnail ==
  /\ pc = "call"
  /\ call.fn = "thumbnail"
  /\ call' = [call EXCEPT !.ret = ThumbnailFor(call.i, call.chunk, call.before)]
  /\ pc' = "returned"
  /\ UNCHANGED <<alignVars, taskVars, result, exit_code, dthread, fps, error,
                 html_written, browser_opened, extVars, logVars>>

\* the tolerance a call of compute_chunks works with
Tolerance(c) == IF c.given THEN c.max_same_frames ELSE DefaultMaxSameFrames

\* the call of compute_chunks returns
CallComputeChunks ==
  /\ pc = "call"
  /\ call.fn = "compute_chunks"
  /\ call' = [call EXCEPT !.ret = compute_chunks(call.indices, Tolerance(call))]
  /\ pc' = "returned"
  /\ UNCHANGED <<alignVars, taskVars, result, exit_code, dthread, fps, error,
                 html_written, browser_opened, extVars, logVars>>

NextCalls ==
  \/ CallExtractClip
  \/ CallThumbnail
  \/ CallComputeChunks

SpecCalls == InitCalls /\ [][NextCalls]_vars

\* ------------------------------------------------- replay.py, replay_script.py
\* A Callable is the tuple of its name and what it closes over, None the empty
\* tuple.  A script entry is the pair (frame, event) of the code.

\* everything of diff.py but the position, the exception and the single call, and
\* the state of a walk of the widget tree
diffVars == <<alignVars, taskVars, result, exit_code, dthread, fps, html_written,
              browser_opened, logVars, walkVars>>

WAIT == (FPS * 5) \div 10

WAIT_LONG == FPS

\* the dataclass ScriptEvent: its fields are setup and mouse_events
ScriptEvent(setup_fn, events) == [setup |-> setup_fn, mouse_events |-> events]

\* MouseEvent(pos=MousePos(x, y), slot=0, ..., left_down=False, t=get_frame_time()),
\* t as the pair (frame, FPS) of the quotient frame / FPS
MouseEvent(x, y, pressed, released, at) ==
  [pos |-> <<x, y>>, slot |-> 0, left_pressed |-> pressed, left_released |-> released,
   left_down |-> FALSE, t |-> <<at, FPS>>]

\* the setup function setup_send_fn(send_fn) returns
setup_send_fn(sender) == <<"setup_send_fn", sender>>

make_network_state_setup(network_type) == setup_send_fn(<<"network_state", network_type>>)

make_onroad_setup == setup_send_fn(<<"onroad">>)

make_alert_setup(size, text1) == setup_send_fn(<<"alert", size, text1>>)

\* the state of build_script: its frame and its script
NewScript == [frame |-> 0, script |-> <<>>]

add(b, delta, event) ==
  [frame |-> b.frame + delta, script |-> Append(b.script, <<b.frame + delta, event>>)]

wait(b, frames) == IF frames > 0 THEN add(b, frames, ScriptEvent(None, None)) ELSE b

\* click with the release queued in the frame of the press
ClickSameFrame(b, x, y, wait_frames) ==
  LET mouse_down == MouseEvent(x, y, TRUE, FALSE, b.frame)
      b1         == add(b, 0, ScriptEvent(None, <<mouse_down>>))
      mouse_up   == MouseEvent(x, y, FALSE, TRUE, b1.frame)
      b2         == add(b1, 0, ScriptEvent(None, <<mouse_up>>))
  IN  wait(b2, wait_frames)

click(b, x, y, wait_frames) ==
  LET mouse_down == MouseEvent(x, y, TRUE, FALSE, b.frame)
      b1         == add(b, 0, ScriptEvent(None, <<mouse_down>>))
      mouse_up   == MouseEvent(x, y, FALSE, TRUE, b1.frame)
      b2         == add(b1, 1, ScriptEvent(None, <<mouse_up>>))
  IN  wait(b2, wait_frames)

\* (gui_app.width // 2, gui_app.height // 2) of the 536 x 240 screen
MiciCenter == <<536 \div 2, 240 \div 2>>

build_mici_script(b) ==
  LET b1 == add(b, WAIT_LONG, ScriptEvent(None, None))
      b2 == click(b1, MiciCenter[1], MiciCenter[2], WAIT_LONG)
  IN  click(b2, MiciCenter[1], MiciCenter[2], WAIT_LONG)

\* the helpers of build_tizi_script
setup_and_click(b, fn, click_pos, wait_frames) ==
  click(add(b, 0, ScriptEvent(fn, None)), click_pos[1], click_pos[2], wait_frames)

setup(b, fn, wait_frames) ==
  add(add(b, 0, ScriptEvent(fn, None)), wait_frames, ScriptEvent(None, None))

make_home_refresh_setup(fn) == <<"home_refresh", fn>>

build_tizi_script(b) ==
  LET b1  == setup(b, make_network_state_setup("wifi"), WAIT)
      b2  == setup(b1, make_home_refresh_setup("setup_offroad_alerts"), WAIT)
      b3  == setup(b2, make_home_refresh_setup("setup_update_available"), WAIT)
      b4  == click(b3, 150, 90, WAIT)
      b5  == click(b4, 278, 450, WAIT)
      b6  == click(b5, 278, 600, WAIT)
      b7  == setup_and_click(b6, <<"put_update_params">>, <<278, 720>>, WAIT)
      b8  == click(b7, 278, 845, WAIT)
      b9  == setup_and_click(b8, <<"setup_developer_params">>, <<278, 950>>, WAIT)
      b10 == click(b9, 1930, 470, WAIT)
      b11 == click(b10, 1930, 115, WAIT)
      b12 == click(b11, 250, 160, WAIT)
      b13 == setup(b12, make_onroad_setup, WAIT)
      b14 == click(b13, 1000, 500, WAIT)
      b15 == setup(b14, make_alert_setup("small", "Small Alert"), WAIT)
      b16 == setup(b15, make_alert_setup("mid", "Medium Alert"), WAIT)
      b17 == setup(b16, make_alert_setup("full", "DISENGAGE IMMEDIATELY"), WAIT)
      b18 == setup(b17, make_alert_setup("full", "Reverse\nGear"), WAIT)
      b19 == setup(b18, make_alert_setup("full", "TAKE CONTROL IMMEDIATELY"), WAIT)
  IN  add(b19, 0, ScriptEvent(None, None))

\* "if big:" for the string run_replay passes: a string is false only when empty
Truthy(v) == v # ""

build_script(big) ==
  IF Truthy(big) THEN build_tizi_script(NewScript).script
  ELSE build_mici_script(NewScript).script

\* the layout class run_replay imports for a variant
MainLayout(v) == IF v = "mici" THEN "MiciMainLayout" ELSE "MainLayout"

\* the builder calls drawn for one script
ClickPositions == {<<150, 90>>, <<278, 450>>}

BuilderOps ==
  {[op |-> "add", delta |-> d] : d \in 0 .. MaxWait}
  \cup {[op |-> "wait", frames |-> d] : d \in 0 .. MaxWait}
  \cup {[op |-> "click", pos |-> p, wait_frames |-> w] : p \in ClickPositions, w \in 0 .. MaxWait}

ApplyOp(b, o) ==
  CASE o.op = "add" -> add(b, o.delta, ScriptEvent(None, None))
    [] o.op = "wait" -> wait(b, o.frames)
    [] o.op = "click" -> click(b, o.pos[1], o.pos[2], o.wait_frames)

\* the builder after the first n calls of ops
RECURSIVE RunOps(_, _)
RunOps(ops, n) == IF n = 0 THEN NewScript ELSE ApplyOp(RunOps(ops, n - 1), ops[n])

BuilderCalls ==
  {[fn |-> "builder", ops |-> ops, ret |-> None] :
     ops \in UNION {[1 .. n -> BuilderOps] : n \in 0 .. MaxOps}}

\* the state the "while script_index < len(script) ..." loop works on
LoopState ==
  [script_index |-> script_index, send_fn |-> send_fn, _frame_fn |-> _frame_fn,
   mouse_events |-> mouse_events, handled |-> handled, sent |-> sent, raised |-> ""]

\* event.setup() of a script entry: a setup made by setup_send_fn stores its sender
\* in the global and calls it once, the other setups touch nothing modelled here
RunSetup(st, event) ==
  IF event.setup # None /\ event.setup[1] = "setup_send_fn"
  THEN [st EXCEPT !._frame_fn = event.setup[2],
                  !.sent = Append(st.sent, <<frame, event.setup[2]>>)]
  ELSE st

\* "with gui_app._mouse._lock: gui_app._mouse._events.extend(event.mouse_events)"
QueueMouse(st, event) ==
  IF event.mouse_events # None
  THEN [st EXCEPT !.mouse_events = st.mouse_events \o event.mouse_events]
  ELSE st

\* the while loop of one iteration: the entries of the current frame, in order;
\* reading an attribute the event does not have raises AttributeError
RECURSIVE HandleEntries(_)
HandleEntries(st) ==
  IF st.script_index < Len(script) /\ script[st.script_index + 1][1] = frame
  THEN LET event == script[st.script_index + 1][2]
           st1   == QueueMouse(RunSetup(st, event), event)
       IN  IF "send_fn" \notin DOMAIN event
           THEN [st1 EXCEPT !.raised = "AttributeError"]
           ELSE HandleEntries(
                  [st1 EXCEPT !.send_fn = IF event.send_fn # None THEN event.send_fn
                                          ELSE st1.send_fn,
                              !.script_index = st1.script_index + 1,
                              !.handled = Append(st1.handled,
                                                 <<st1.script_index + 1, frame>>)])
  ELSE st

\* main(): "variant = 'tizi' if args.big else 'mici'", then run_replay(variant) up to
\* its main loop
ReplayMain ==
  /\ pc = "replay_main"
  /\ \E big \in BOOLEAN :
       /\ variant' = IF big THEN "tizi" ELSE "mici"
       /\ main_layout' = MainLayout(variant')
       /\ script' = build_script(variant')
  /\ script_index' = 0
  /\ send_fn' = None
  /\ frame' = 0
  /\ pc' = "replay_loop"
  /\ UNCHANGED <<diffVars, error, call, _frame_fn, mouse_events, handled, sent, engineVars>>

\* gui_app.render() yields: one iteration of the main loop
Iterate ==
  /\ pc = "replay_loop"
  /\ LET st == HandleEntries(LoopState)
     IN  /\ script_index' = st.script_index
         /\ send_fn' = st.send_fn
         /\ _frame_fn' = st._frame_fn
         /\ mouse_events' = st.mouse_events
         /\ handled' = st.handled
         /\ IF st.raised # ""
            THEN /\ error' = st.raised
                 /\ pc' = "replay_raised"
                 /\ sent' = st.sent
                 /\ frame' = frame
            ELSE /\ sent' = IF st.send_fn # None THEN Append(st.sent, <<frame, st.send_fn>>)
                            ELSE st.sent
                 /\ frame' = frame + 1
                 /\ pc' = IF st.script_index >= Len(script) THEN "replay_after"
                          ELSE "replay_loop"
                 /\ error' = error
  /\ UNCHANGED <<diffVars, call, variant, main_layout, script, engineVars>>

\* gui_app.render() ends: the window was closed
RenderEnds ==
  /\ pc = "replay_loop"
  /\ pc' = "replay_after"
  /\ UNCHANGED <<diffVars, error, call, extVars>>

\* "time.monotonic = _original_monotonic": the name is assigned in a comment only
RestoreClock ==
  /\ pc = "replay_after"
  /\ error' = "NameError"
  /\ pc' = "replay_raised"
  /\ UNCHANGED <<diffVars, call, extVars>>

\* add, wait and click called in the drawn order on a new script
CallBuilder ==
  /\ pc = "call"
  /\ call.fn = "builder"
  /\ call' = [call EXCEPT !.ret = RunOps(call.ops, Len(call.ops))]
  /\ pc' = "returned"
  /\ UNCHANGED <<diffVars, error, extVars>>

InitReplay ==
  /\ \/ pc = "replay_main" /\ call = NoCall
     \/ pc = "call" /\ call \in BuilderCalls
  /\ Unstarted
  /\ ReplayUnstarted

NextReplay ==
  \/ ReplayMain
  \/ Iterate
  \/ RenderEnds
  \/ RestoreClock
  \/ CallBuilder

SpecReplay == InitReplay /\ [][NextReplay]_vars

\* ------------------------------------------------------------- explorer.py
\* An action is a dict: a record that has the keys the dict has.  The render
\* generator is the tuple of the number of frames it still yields.

\* a render generator that never ends
Endless == 0 - 1

\* the frames drawn for the render generator: none, the frames of the first pump of
\* the run and a few more, or no end
RenderFrames(first) == {first + k : k \in 0 .. MaxRender} \cup {0, Endless}

\* action.get(key, default)
Get(action, key, default) == IF key \in DOMAIN action THEN action[key] ELSE default

\* the state the functions of explorer.py work on
EngineState ==
  [_render_gen |-> _render_gen, _frame |-> _frame, _action_log |-> _action_log,
   mouse_events |-> mouse_events, action_log |-> action_log, applied |-> applied,
   visited |-> visited, raised |-> ""]

\* F of the value of v, v being evaluated once
With(v, F(_)) == CHOOSE r \in {F(x) : x \in {v}} : TRUE

Raise(st, exception) ==
  [st EXCEPT !.raised = IF @ # "" THEN @ ELSE exception]

\* MouseEvent(pos=MousePos(x, y), slot=0, ..., t=...): t, the clock, as the pair of
\* the frames rendered so far and the hundredths added to it
EngineEvent(x, y, pressed, released, down, hundredths) ==
  [pos |-> <<x, y>>, slot |-> 0, left_pressed |-> pressed, left_released |-> released,
   left_down |-> down, t |-> <<0, hundredths>>]

\* "gui_app._mouse._events.append(...)" or extend, the clock being read before
Queue(st0, events) ==
  With(st0, LAMBDA st :
    IF st.raised # "" THEN st
    ELSE [st EXCEPT !.mouse_events =
            @ \o [k \in 1 .. Len(events) |->
                    [events[k] EXCEPT !.t = <<st._frame, events[k].t[2]>>]]])

inject_click(st, x, y) ==
  Queue(st, <<EngineEvent(x, y, TRUE, FALSE, FALSE, 0),
              EngineEvent(x, y, FALSE, TRUE, FALSE, 1)>>)

inject_long_press(st, x, y) == Queue(st, <<EngineEvent(x, y, TRUE, FALSE, FALSE, 0)>>)

inject_release(st, x, y) == Queue(st, <<EngineEvent(x, y, FALSE, TRUE, FALSE, 0)>>)

\* the frames a generator with left frames renders for a pump of n
Rendered(left, n) == IF left = Endless THEN Max(n, 0) ELSE Min(Max(n, 0), left)

\* UIEngine.pump(n): n frames, or the frames left when the generator ends before
pump(st0, n) ==
  With(st0, LAMBDA st :
    IF st.raised # "" THEN st
    ELSE IF st._render_gen = None THEN Raise(st, "RuntimeError")
    ELSE [st EXCEPT !._frame = @ + Rendered(st._render_gen[1], n),
                    !._render_gen = <<IF @[1] = Endless THEN Endless
                                      ELSE @[1] - Rendered(@[1], n)>>])

\* max(1, int(duration_ms / 1000 * FPS))
Hold(duration_ms) == Max(1, IF duration_ms <= 0 THEN 0 ELSE (duration_ms * FPS) \div 1000)

\* "for i in range(1, steps + 1)" of a swipe, from step i on
RECURSIVE SwipeMoves(_, _, _, _)
SwipeMoves(st, action, steps, i) ==
  IF i > steps THEN st
  ELSE LET x == action.x1 + ((action.x2 - action.x1) * i) \div steps
           y == action.y1 + ((action.y2 - action.y1) * i) \div steps
       IN  SwipeMoves(pump(Queue(st, <<EngineEvent(x, y, FALSE, FALSE, TRUE, 0)>>), 2),
                      action, steps, i + 1)

Swipe(st, action) ==
  pump(Queue(SwipeMoves(pump(Queue(st, <<EngineEvent(action.x1, action.y1,
                                                     TRUE, FALSE, FALSE, 0)>>), 2),
                        action, Get(action, "steps", 5), 1),
             <<EngineEvent(action.x2, action.y2, FALSE, TRUE, FALSE, 0)>>), 16)

\* the long press that is never released
LongPressNoRelease(st, action) ==
  pump(pump(inject_long_press(st, action.x, action.y),
            Hold(Get(action, "duration_ms", 600))), 8)

LongPress(st, action) ==
  pump(inject_release(pump(inject_long_press(st, action.x, action.y),
                           Hold(Get(action, "duration_ms", 600))),
                      action.x, action.y), 8)

\* the branches of execute_action, before the action is logged
RunAction(st0, action) ==
  With(st0, LAMBDA st :
  LET t == action.action
  IN  CASE t = "click" ->
             IF {"x", "y"} \subseteq DOMAIN action
             THEN pump(inject_click(st, action.x, action.y), 8)
             ELSE Raise(st, "KeyError")
        [] t = "long_press" ->
             IF {"x", "y"} \subseteq DOMAIN action THEN LongPress(st, action)
             ELSE Raise(st, "KeyError")
        [] t = "swipe" ->
             IF {"x1", "y1", "x2", "y2"} \subseteq DOMAIN action THEN Swipe(st, action)
             ELSE Raise(st, "KeyError")
        [] t = "set_param" ->
             IF "key" \in DOMAIN action
                /\ (Get(action, "param_type", "string") = "remove" \/ "value" \in DOMAIN action)
             THEN pump(st, 8)
             ELSE Raise(st, "KeyError")
        [] t = "pump" -> pump(st, Get(action, "frames", 30))
        [] OTHER -> Raise(st, "ValueError"))

\* execute_action that logs the action before it runs it
\* a step that is skipped once an exception is on its way
Unless(st0, F(_)) == With(st0, LAMBDA st : IF st.raised # "" THEN st ELSE F(st))

Logged(st, action) ==
  [st EXCEPT !._action_log = Append(@, action),
             !.applied = Append(@, <<"execute_action", action>>)]

\* execute_action that logs the action before it runs it
ExecuteActionLogFirst(st0, action) ==
  Unless(st0, LAMBDA st : RunAction(Logged(st, action), action))

execute_action(st0, action) ==
  Unless(st0, LAMBDA st : Unless(RunAction(st, action), LAMBDA ran : Logged(ran, action)))

\* engine.pump(n) called by run_replay and run_auto_explore themselves
EnginePump(st, n) ==
  Unless(pump(st, n), LAMBDA r : [r EXCEPT !.applied = Append(@, <<"pump", n>>)])

\* the variables after the functions worked on st
Commit(st) ==
  /\ _render_gen' = st._render_gen
  /\ _frame' = st._frame
  /\ _action_log' = st._action_log
  /\ mouse_events' = st.mouse_events
  /\ action_log' = st.action_log
  /\ applied' = st.applied
  /\ visited' = st.visited
  /\ error' = st.raised

\* the replay variables but the mouse events
replayOnly == <<variant, main_layout, script, script_index, frame, send_fn, _frame_fn,
                handled, sent>>

\* the actions drawn for a recording
SwipeEnds == {<<400, 120, 50, 120>>, <<3, 12, 0, 228>>}

Actions ==
  {[action |-> "click", x |-> 32, y |-> 204],
   [action |-> "click", x |-> 32],
   [action |-> "long_press", x |-> 268, y |-> 120],
   [action |-> "long_press", x |-> 268, y |-> 120, duration_ms |-> 700],
   [action |-> "long_press", x |-> 268, y |-> 120, duration_ms |-> 0],
   [action |-> "swipe", x1 |-> 400, y1 |-> 120, x2 |-> 50, y2 |-> 120],
   [action |-> "set_param", key |-> "IsMetric", value |-> "true", param_type |-> "bool"],
   [action |-> "pump"],
   [action |-> "tap", x |-> 32, y |-> 204]}
  \cup {[action |-> "swipe", x1 |-> e[1], y1 |-> e[2], x2 |-> e[3], y2 |-> e[4],
         steps |-> n] : e \in SwipeEnds, n \in 0 .. MaxSteps}
  \cup {[action |-> "pump", frames |-> n] : n \in 0 .. MaxRender}

Recordings == UNION {[1 .. n -> Actions] : n \in 0 .. MaxActions}

\* json.load returned something that is not a list
NotAList == <<[action |-> "not a list"]>>

\* "with open(recording_path) as f: actions = json.load(f)"; a value that is not a
\* list raises ValueError, otherwise engine.setup() and engine.pump(30)
LoadRecording ==
  /\ pc = "engine_replay"
  /\ IF recording = NotAList
     THEN /\ error' = "ValueError"
          /\ pc' = "engine_raised"
          /\ UNCHANGED <<_render_gen, _frame, _action_log, mouse_events, action_log,
                         applied, visited>>
     ELSE /\ \E frames \in RenderFrames(30) :
               Commit(EnginePump([EngineState EXCEPT !._render_gen = <<frames>>], 30))
          /\ pc' = "engine_actions"
  /\ UNCHANGED <<diffVars, call, replayOnly, recording, next_action, ui>>

\* "engine.execute_action(action)" for the next action of the recording
ReplayAction ==
  /\ pc = "engine_actions"
  /\ next_action < Len(recording)
  /\ LET st == execute_action(EngineState, recording[next_action + 1])
     IN  /\ Commit(st)
         /\ pc' = IF st.raised # "" THEN "engine_raised" ELSE "engine_actions"
         /\ next_action' = IF st.raised # "" THEN next_action ELSE next_action + 1
  /\ UNCHANGED <<diffVars, call, replayOnly, recording, ui>>

\* the recording is replayed: engine.pump(60), engine.close() and the report
ReplayDone ==
  /\ pc = "engine_actions"
  /\ next_action = Len(recording)
  /\ Commit(EnginePump(EngineState, 60))
  /\ pc' = "engine_replayed"
  /\ UNCHANGED <<diffVars, call, replayOnly, recording, next_action, ui>>

\* a call on the UI that does not go through execute_action
Direct(st, operation) ==
  Unless(st, LAMBDA s : [s EXCEPT !.applied = Append(@, operation)])

\* run_auto_explore.do
do(st, action) ==
  Unless(execute_action(st, action),
         LAMBDA r : [r EXCEPT !.action_log = Append(@, action)])

\* the widgets of a screen from the k-th on: a widget is visited once; a toggle is
\* clicked twice, a clickable widget with a text once, each click with its pump
RECURSIVE InteractFrom(_, _, _)
InteractFrom(st0, screen, k) ==
  With(st0, LAMBDA st :
    IF k > Len(ui.widgets) THEN st
    ELSE LET key   == <<screen, k>>
             press == [action |-> "click", x |-> 100 * k, y |-> 120]
             seen  == [st EXCEPT !.visited = @ \cup {key}]
         IN  IF key \in st.visited THEN InteractFrom(st, screen, k + 1)
             ELSE InteractFrom(
                    IF ui.widgets[k] = "toggle"
                    THEN do(do(do(do(seen, press), [action |-> "pump", frames |-> 8]),
                               press), [action |-> "pump", frames |-> 8])
                    ELSE do(do(seen, press), [action |-> "pump", frames |-> 15]),
                    screen, k + 1))

interact_toggles(st, screen) == InteractFrom(st, screen, 1)

\* What run_auto_explore does is the list of its steps: do(action), a direct call on
\* the UI, or interact_toggles(get_state()) on a screen.
Do(action) == [step |-> "do", arg |-> action]

Directly(operation) == [step |-> "direct", arg |-> operation]

Interact(screen) == [step |-> "interact_toggles", arg |-> screen]

do_click(x, y) == <<Do([action |-> "click", x |-> x, y |-> y])>>

do_swipe(x1, y1, x2, y2) ==
  <<Do([action |-> "swipe", x1 |-> x1, y1 |-> y1, x2 |-> x2, y2 |-> y2, steps |-> 5])>>

do_pump(n) == <<Do([action |-> "pump", frames |-> n])>>

RECURSIVE swipe_repeat(_, _, _, _, _, _)
swipe_repeat(x1, y1, x2, y2, count, pump_frames) ==
  IF count <= 0 THEN <<>>
  ELSE do_swipe(x1, y1, x2, y2) \o do_pump(pump_frames)
         \o swipe_repeat(x1, y1, x2, y2, count - 1, pump_frames)

swipe_left == do_swipe(400, 120, 50, 120)

swipe_down == do_swipe(268, 12, 268, 228)

\* "if get_state().has_modal: gui_app.set_modal_overlay(None); pump(5)"
dismiss_modal(has_modal) ==
  IF has_modal THEN <<Directly(<<"set_modal_overlay", "None">>)>> \o do_pump(5) ELSE <<>>

\* "for idx, item in enumerate(items)" of explore_panel, from item idx on: the item
\* is scrolled to where it is laid out and swiped to otherwise; an item that is a
\* button on the screen is clicked and its modal dismissed
RECURSIVE ExploreItems(_, _)
ExploreItems(screen, idx) ==
  IF idx > ui.items THEN <<>>
  ELSE (IF ui.item_placed THEN <<Directly(<<"scroll_to", "item", idx>>)>> \o do_pump(20)
        ELSE swipe_left \o do_pump(15))
       \o <<Interact(screen)>>
       \o (IF ui.item_button THEN do_click(268, 120) \o do_pump(15) \o dismiss_modal(ui.modal)
           ELSE <<>>)
       \o ExploreItems(screen, idx + 1)

explore_panel(panel_type) ==
  <<Directly(<<"_set_current_panel", panel_type>>)>> \o do_pump(40)
    \o <<Interact(panel_type)>>
    \o (IF ui.scroller
        THEN ExploreItems(panel_type, 1)
               \o <<Directly(<<"scroll_to", "start", 0>>)>> \o do_pump(10)
        ELSE swipe_repeat(400, 120, 50, 120, 6, 15) \o swipe_repeat(50, 120, 400, 120, 6, 8))
    \o do_pump(20)
    \o dismiss_modal(FALSE)   \* the modal of a button was dismissed after its click
    \o <<Directly(<<"_set_current_panel", "None">>)>> \o do_pump(10)

\* the panels run_auto_explore opens, in its order
Panels == <<"TOGGLES", "DEVICE", "NETWORK", "DEVELOPER", "FIREHOSE">>

\* "for pt in (...): explore_panel(pt)", from the k-th panel on
RECURSIVE ExplorePanels(_)
ExplorePanels(k) ==
  IF k > Len(Panels) THEN <<>> ELSE explore_panel(Panels[k]) \o ExplorePanels(k + 1)

\* the phases of run_auto_explore after engine.pump(60)
ExploreSteps ==
  LET long_press == [action |-> "long_press", x |-> 268, y |-> 120, duration_ms |-> 700]
  IN  <<Interact("HOME"), Do(long_press)>> \o do_pump(10)
        \o <<Do(long_press)>> \o do_pump(10)
        \o do_click(32, 204) \o do_pump(30)
        \o swipe_repeat(400, 120, 50, 120, 4, 15)
        \o swipe_repeat(50, 120, 400, 120, 4, 15)
        \o (IF ui.pair THEN do_click(268, 120) \o do_pump(15) \o dismiss_modal(ui.modal)
            ELSE <<>>)
        \o ExplorePanels(1)
        \o swipe_down \o do_pump(30)
        \o do_pump(60)

\* what the widget tree may show: the toggles and clickable widgets of a screen, a
\* scroller with its items or none, whether an item is laid out and is a button,
\* whether a click on a button opens a modal, whether there is a pair button
UiConfigs ==
  {c \in [widgets : UNION {[1 .. n -> {"toggle", "clickable"}] : n \in 0 .. MaxWidgets},
          scroller : BOOLEAN, items : 0 .. MaxItems, item_placed : BOOLEAN,
          item_button : BOOLEAN, modal : BOOLEAN, pair : BOOLEAN] :
     /\ ~c.scroller => c.items = 0
     /\ c.items = 0 => (~c.item_placed /\ ~c.item_button)
     /\ (~c.item_button /\ ~c.pair) => ~c.modal}

\* the variables run_auto_explore leaves alone
exploreOnly == <<diffVars, call, replayOnly, ui>>

\* engine.setup() and engine.pump(60)
ExploreStart ==
  /\ pc = "explore"
  /\ \E frames \in RenderFrames(60) :
       Commit(EnginePump([EngineState EXCEPT !._render_gen = <<frames>>], 60))
  /\ next_action' = 0
  /\ pc' = "explore_steps"
  /\ UNCHANGED <<exploreOnly, recording>>

\* the next step of the exploration
ExploreStep ==
  /\ pc = "explore_steps"
  /\ next_action < Len(ExploreSteps)
  /\ LET next == ExploreSteps[next_action + 1]
     IN  Commit(CASE next.step = "do" -> do(EngineState, next.arg)
                  [] next.step = "direct" -> Direct(EngineState, next.arg)
                  [] next.step = "interact_toggles" -> interact_toggles(EngineState, next.arg))
  /\ next_action' = next_action + 1
  /\ UNCHANGED <<pc, exploreOnly, recording>>

\* engine.close(), the coverage report and "json.dump(action_log, f, indent=2)"
WriteRecording ==
  /\ pc = "explore_steps"
  /\ next_action = Len(ExploreSteps)
  /\ recording' = action_log
  /\ pc' = "explore_done"
  /\ UNCHANGED <<exploreOnly, error, mouse_events, _render_gen, _frame, _action_log,
                 next_action, action_log, applied, visited>>

\* the operations run_replay of explorer.py applies to the UI for a recording
ReplayApplies(actions) ==
  <<(<<"pump", 30>>)>> \o [k \in 1 .. Len(actions) |-> <<"execute_action", actions[k]>>]
    \o <<(<<"pump", 60>>)>>

\* the engine before UIEngine.setup, no run of replay.py or diff.py under way
EngineUnstarted ==
  /\ Unstarted
  /\ NotWalking
  /\ variant = ""
  /\ main_layout = ""
  /\ script = <<>>
  /\ script_index = 0
  /\ frame = 0
  /\ send_fn = None
  /\ _frame_fn = None
  /\ mouse_events = <<>>
  /\ handled = <<>>
  /\ sent = <<>>
  /\ _render_gen = None
  /\ _frame = 0
  /\ _action_log = <<>>
  /\ next_action = 0
  /\ action_log = <<>>
  /\ applied = <<>>
  /\ visited = {}
  /\ call = NoCall

\* "explorer.py replay <recording>"
InitEngine ==
  /\ EngineUnstarted
  /\ pc = "engine_replay"
  /\ recording \in Recordings \cup {NotAList}
  /\ ui = NoUi

NextEngine ==
  \/ LoadRecording
  \/ ReplayAction
  \/ ReplayDone

SpecEngine == InitEngine /\ [][NextEngine]_vars

\* "explorer.py explore"
InitExplore ==
  /\ EngineUnstarted
  /\ pc = "explore"
  /\ recording = <<>>
  /\ ui \in UiConfigs

NextExplore ==
  \/ ExploreStart
  \/ ExploreStep
  \/ WriteRecording

SpecExplore == InitExplore /\ [][NextExplore]_vars

\* ------------------------------------------------ introspect.py: the tree walker
\* The widgets of a drawn UI.  A widget holds references to widgets in its
\* attributes, in the order vars() or _items gives them; a label holds none.
Widgets == {"layout", "panel", "label"}

Refs == UNION {[1 .. n -> Widgets] : n \in 0 .. MaxRefs}

WidgetGraphs == {g \in [Widgets -> Refs] : g["label"] = <<>>}

\* the loop of _iter_widget_children from the i-th reference on: a widget is a
\* child once, under the name of its first reference
RECURSIVE IterFrom(_, _, _)
IterFrom(refs, i, seen_ids) ==
  IF i > Len(refs) THEN <<>>
  ELSE IF refs[i] \in seen_ids THEN IterFrom(refs, i + 1, seen_ids)
       ELSE <<(<<(<<"_items", i - 1>>), refs[i]>>)>>
              \o IterFrom(refs, i + 1, seen_ids \cup {refs[i]})

_iter_widget_children(widget) == IterFrom(holds[widget], 1, {})

_extract_widget_info(widget, attr_name, depth) ==
  [widget |-> widget, attr_name |-> attr_name, depth |-> depth, children |-> <<>>]

\* the walk that also descends from a widget at max_depth
DescendsAtMaxDepth(depth) == depth <= max_depth

\* "if depth < max_depth"
Descends(depth) == depth < max_depth

\* a call of walk_widget_tree: its info and the children it has still to walk
WalkFrame(widget, attr_name, depth) ==
  [info |-> _extract_widget_info(widget, attr_name, depth),
   todo |-> IF Descends(depth) THEN _iter_widget_children(widget) ELSE <<>>]

\* the variables a walk leaves alone
walkOnly == <<alignVars, taskVars, result, exit_code, dthread, fps, html_written,
              browser_opened, logVars, error, call, replayVars, engineVars>>

\* walk_widget_tree(main_layout)
WalkCall ==
  /\ pc = "walk"
  /\ stack' = <<WalkFrame("layout", <<"root">>, 0)>>
  /\ pc' = "walking"
  /\ UNCHANGED <<holds, max_depth, tree, walkOnly>>

\* "child_info = walk_widget_tree(child_widget, child_name, depth + 1, max_depth)"
WalkChild ==
  /\ pc = "walking"
  /\ LET top   == stack[Len(stack)]
         child == Head(top.todo)
     IN  /\ top.todo # <<>>
         /\ stack' = Append(stack, WalkFrame(child[2], child[1], top.info.depth + 1))
  /\ UNCHANGED <<pc, holds, max_depth, tree, walkOnly>>

\* "return info", and "info.children.append(child_info)" in the caller
WalkReturn ==
  /\ pc = "walking"
  /\ LET top == stack[Len(stack)]
     IN  /\ top.todo = <<>>
         /\ IF Len(stack) = 1
            THEN /\ tree' = top.info
                 /\ stack' = <<>>
                 /\ pc' = "walked"
            ELSE /\ stack' = [SubSeq(stack, 1, Len(stack) - 1) EXCEPT
                                ![Len(stack) - 1].todo = Tail(@),
                                ![Len(stack) - 1].info.children = Append(@, top.info)]
                 /\ UNCHANGED <<pc, tree>>
  /\ UNCHANGED <<holds, max_depth, walkOnly>>

InitWalk ==
  /\ Unstarted
  /\ variant = ""
  /\ main_layout = ""
  /\ script = <<>>
  /\ script_index = 0
  /\ frame = 0
  /\ send_fn = None
  /\ _frame_fn = None
  /\ mouse_events = <<>>
  /\ handled = <<>>
  /\ sent = <<>>
  /\ recording = <<>>
  /\ _render_gen = None
  /\ _frame = 0
  /\ _action_log = <<>>
  /\ next_action = 0
  /\ action_log = <<>>
  /\ applied = <<>>
  /\ ui = NoUi
  /\ visited = {}
  /\ call = NoCall
  /\ pc = "walk"
  /\ holds \in WidgetGraphs
  /\ max_depth \in 0 .. MaxDepth
  /\ stack = <<>>
  /\ tree = NoTree

NextWalk ==
  \/ WalkCall
  \/ WalkChild
  \/ WalkReturn

\* a call that can take a step takes it: the interpreter runs the walk on
SpecWalk == InitWalk /\ [][NextWalk]_vars /\ WF_vars(NextWalk)

\* ------------------------------------------------------------- properties
\* positions of main() at which get_opcodes has returned
\* the positions of main() after the if on chunks
AfterCount == {"fps", "extract", "collect", "report", "write", "open", "join", "exit", "done"}

OpcodesDone == pc \in {"chunks", "count"} \cup AfterCount

\* positions at which compute_diff_chunks has returned
ChunksDone == pc \in {"count"} \cup AfterCount

\* positions at which diff_frame_count is computed
CountDone == pc \in AfterCount

\* a[s1:e1] and b[s2:e2] have the same length and pairwise equal hashes
EqualStretch(s1, e1, s2, e2) ==
  /\ s1 <= e1
  /\ e1 - s1 = e2 - s2
  /\ \A k \in 0 .. (e1 - s1 - 1) : At(hashes1, s1 + k) = At(hashes2, s2 + k)

\* the opcodes are non-empty ranges that follow each other from (0, 0) to (la, lb)
OpcodesPartition ==
  LET n == Len(opcodes)
  IN  /\ n = 0 => (hashes1 = <<>> /\ hashes2 = <<>>)
      /\ n > 0 => /\ opcodes[1][2] = 0 /\ opcodes[1][4] = 0
                  /\ opcodes[n][3] = Len(hashes1) /\ opcodes[n][5] = Len(hashes2)
      /\ \A k \in 1 .. n :
           /\ opcodes[k][2] <= opcodes[k][3]
           /\ opcodes[k][4] <= opcodes[k][5]
           /\ opcodes[k][2] < opcodes[k][3] \/ opcodes[k][4] < opcodes[k][5]
           /\ opcodes[k][1] = "equal" =>
                EqualStretch(opcodes[k][2], opcodes[k][3], opcodes[k][4], opcodes[k][5])
      /\ \A k \in 1 .. (n - 1) :
           /\ opcodes[k + 1][2] = opcodes[k][3]
           /\ opcodes[k + 1][4] = opcodes[k][5]

\* where the stretch before chunk n begins and where the one after chunk n - 1 ends
GapStart1(n) == IF n = 1 THEN 0 ELSE chunks[n - 1].v1_start + chunks[n - 1].v1_count

GapStart2(n) == IF n = 1 THEN 0 ELSE chunks[n - 1].v2_start + chunks[n - 1].v2_count

GapEnd1(n) == IF n = Len(chunks) + 1 THEN Len(hashes1) ELSE chunks[n].v1_start

GapEnd2(n) == IF n = Len(chunks) + 1 THEN Len(hashes2) ELSE chunks[n].v2_start

\* C1: the edit operations are in increasing, non-overlapping, contiguous order and
\* their a-ranges cover [0, len(a)) and their b-ranges [0, len(b)) exactly once; the
\* stretch before, between and after the returned chunks has the same length in both
\* videos and pairwise equal hashes.
C1_CoveragePartition ==
  (OpcodesDone => OpcodesPartition)
  /\ (ChunksDone =>
        \A n \in 1 .. (Len(chunks) + 1) :
          EqualStretch(GapStart1(n), GapEnd1(n), GapStart2(n), GapEnd2(n)))

C1_Witness ==
  /\ pc = "done"
  /\ Len(chunks) >= 2
  /\ \E k \in 2 .. (Len(opcodes) - 1) : opcodes[k][1] = "equal"

\* C2: every chunk has type insert iff v1_count = 0, type delete iff v2_count = 0,
\* type replace only with both counts >= 1; no chunk has both counts 0 or type equal.
C2_ChunkTypeCounts ==
  ChunksDone =>
    \A n \in 1 .. Len(chunks) :
      LET c == chunks[n]
      IN  /\ c.type \in {"replace", "insert", "delete"}
          /\ c.type = "insert" <=> c.v1_count = 0
          /\ c.type = "delete" <=> c.v2_count = 0
          /\ c.type = "replace" => (c.v1_count >= 1 /\ c.v2_count >= 1)
          /\ ~(c.v1_count = 0 /\ c.v2_count = 0)
          /\ c.v1_count >= 0 /\ c.v2_count >= 0

C2_Witness ==
  /\ pc = "done"
  /\ \E n \in 1 .. Len(chunks) : chunks[n].type = "replace"
  /\ \E n \in 1 .. Len(chunks) : chunks[n].type = "insert"

\* the indices at which two hash lists of the same length differ
DifferingIndices == {k \in 1 .. Len(hashes1) : hashes1[k] # hashes2[k]}

\* C3: for two hash lists of the same length that differ at exactly one index, the
\* differing-frame count is 1, also when the lists contain repeated hashes.
C3_SingleSubstitutionCountsOne ==
  (CountDone /\ Len(hashes1) = Len(hashes2) /\ Cardinality(DifferingIndices) = 1)
    => diff_frame_count = 1

\* C4: aligning a hash list with itself yields zero chunks and a differing-frame
\* count of 0.
C4_Identity ==
  (hashes1 = hashes2) =>
    /\ ChunksDone => chunks = <<>>
    /\ CountDone => diff_frame_count = 0
    /\ pc = "done" => (clip_sets = <<>> /\ exit_code = 0)

C4_Witness ==
  /\ pc = "done"
  /\ hashes1 = hashes2
  /\ Len(hashes1) >= 3
  /\ hashes1[1] = hashes1[3]
  /\ chunks = <<>>

\* C5: with an empty first list and a non-empty second one there is exactly one
\* chunk, an insert with v1_count = 0 and v2_count = len(b) over v2 frames
\* 0..len(b)-1; with an empty second list and a non-empty first one there is exactly
\* one chunk, a delete with v1_count = len(a) and v2_count = 0.
C5_TotalInsertDelete ==
  ChunksDone =>
    /\ (hashes1 = <<>> /\ hashes2 # <<>>) =>
         /\ Len(chunks) = 1
         /\ chunks[1].type = "insert"
         /\ chunks[1].v1_count = 0
         /\ chunks[1].v2_count = Len(hashes2)
         /\ chunks[1].v2_start = 0
         /\ chunks[1].v2_end = Len(hashes2) - 1
    /\ (hashes2 = <<>> /\ hashes1 # <<>>) =>
         /\ Len(chunks) = 1
         /\ chunks[1].type = "delete"
         /\ chunks[1].v1_count = Len(hashes1)
         /\ chunks[1].v2_count = 0
         /\ chunks[1].v1_start = 0
         /\ chunks[1].v1_end = Len(hashes1) - 1

C5_Witness ==
  /\ pc = "done"
  /\ hashes1 = <<>>
  /\ Len(hashes2) >= 2
  /\ Len(chunks) = 1

\* C6: for video1 = 100 identical frames and video2 = the same frames with frames
\* 40-44 replaced and 3 frames appended, there are exactly two chunks, a replace of
\* v1 frames 40..44 by v2 frames 40..44 and an insert of v2 frames 100..102, the
\* differing-frame count is 8 and the result is "different", video 2 longer by 3.
C6_EndToEndScenario ==
  (pc = "done" /\ hashes1 = ScenarioV1 /\ hashes2 = ScenarioV2) =>
    /\ Len(chunks) = 2
    /\ chunks[1].type = "replace"
    /\ chunks[1].v1_start = 40 /\ chunks[1].v1_end = 44
    /\ chunks[1].v2_start = 40 /\ chunks[1].v2_end = 44
    /\ chunks[2].type = "insert"
    /\ chunks[2].v2_start = 100 /\ chunks[2].v2_end = 102
    /\ diff_frame_count = 8
    /\ result.kind = "different"
    /\ result.longer = 2
    /\ result.by = 3

\* the length of a longest common subsequence
RECURSIVE LCS(_, _)
LCS(a, b) ==
  IF a = <<>> \/ b = <<>> THEN 0
  ELSE IF Head(a) = Head(b) THEN 1 + LCS(Tail(a), Tail(b))
  ELSE Max(LCS(Tail(a), b), LCS(a, Tail(b)))

\* the number of frames the opcodes keep as equal
RECURSIVE EqualFrames(_)
EqualFrames(ops) ==
  IF ops = <<>> THEN 0
  ELSE (IF Head(ops)[1] = "equal" THEN Head(ops)[3] - Head(ops)[2] ELSE 0)
       + EqualFrames(Tail(ops))

\* C7: the alignment is a minimal-edit-distance one: the frames kept as equal form a
\* longest common subsequence of the two hash lists (stated for the drawn lists).
C7_MinimalEditDistance ==
  (OpcodesDone /\ hashes1 \in HashLists /\ hashes2 \in HashLists)
    => EqualFrames(opcodes) = LCS(hashes1, hashes2)

\* the positions of the non-equal opcodes
DiffOpIndices == {k \in 1 .. Len(opcodes) : opcodes[k][1] # "equal"}

\* C8: the i-th chunk is the i-th non-equal opcode, with its tag, range starts and
\* range lengths; equal opcodes give no chunk; chunk starts are non-decreasing.
C8_OneChunkPerDiffOp ==
  ChunksDone =>
    /\ Len(chunks) = Cardinality(DiffOpIndices)
    /\ \A k \in DiffOpIndices :
         LET n == Cardinality({m \in DiffOpIndices : m <= k})
         IN  /\ n <= Len(chunks)
             /\ chunks[n].type = opcodes[k][1]
             /\ chunks[n].v1_start = opcodes[k][2]
             /\ chunks[n].v1_count = opcodes[k][3] - opcodes[k][2]
             /\ chunks[n].v2_start = opcodes[k][4]
             /\ chunks[n].v2_count = opcodes[k][5] - opcodes[k][4]
    /\ \A n \in 1 .. (Len(chunks) - 1) :
         /\ chunks[n].v1_start <= chunks[n + 1].v1_start
         /\ chunks[n].v2_start <= chunks[n + 1].v2_start

C8_Witness ==
  /\ pc = "done"
  /\ Len(chunks) = 2
  /\ chunks[1].type # chunks[2].type
  /\ Len(opcodes) = 3

\* C9: the run is classified as identical exactly when the differing-frame count is
\* 0 and frame_delta is 0, and a count of 0 occurs only for equal hash lists;
\* otherwise it is classified as different, and for frame_delta # 0 the report names
\* video 2 as longer if frame_delta > 0 and video 1 if frame_delta < 0, by
\* |frame_delta| frames.
C9_Classification ==
  pc \in {"write", "open", "join", "exit", "done"} =>
    LET frame_delta == Len(hashes2) - Len(hashes1)
    IN  /\ result.kind = "identical" <=> (diff_frame_count = 0 /\ frame_delta = 0)
        /\ diff_frame_count = 0 => hashes1 = hashes2
        /\ result.kind # "identical" =>
             /\ result.kind = "different"
             /\ result.count = diff_frame_count
             /\ frame_delta > 0 => (result.longer = 2 /\ result.by = frame_delta)
             /\ frame_delta < 0 => (result.longer = 1 /\ result.by = 0 - frame_delta)
             /\ frame_delta = 0 => result.longer = 0

C9_Witness ==
  /\ pc = "done"
  /\ result.kind = "different"
  /\ result.longer = 1
  /\ result.by >= 2

\* the clips a record of the given type has
ClipsByType(r) ==
  /\ r.type = "replace" =>
       (r.clips.video1 # None /\ r.clips.video2 # None /\ r.clips.diff # None)
  /\ r.type = "delete" =>
       (r.clips.video1 # None /\ r.clips.video2 = None /\ r.clips.diff = None)
  /\ r.type = "insert" =>
       (r.clips.video1 = None /\ r.clips.video2 # None /\ r.clips.diff = None)

\* C10: the clips of a chunk's record are determined by its type (replace: video1,
\* video2 and diff; delete: video1 only; insert: video2 only), and a diff clip
\* exists only once both clips of the same chunk were extracted.
C10_ClipsByType ==
  /\ \A n \in 1 .. Len(clip_sets) :
       /\ clip_sets[n].type \in {"replace", "insert", "delete"}
       /\ ClipsByType(clip_sets[n])
  /\ \A n \in 1 .. Len(tpc) :
       ClipPath(n - 1, "diff.mp4") \in files =>
         /\ ClipPath(n - 1, "video1.mp4") \in files
         /\ ClipPath(n - 1, "video2.mp4") \in files

C10_Witness ==
  /\ pc = "done"
  /\ \E n \in 1 .. Len(clip_sets) : clip_sets[n].type = "replace"
  /\ \E n \in 1 .. Len(clip_sets) : clip_sets[n].type = "delete"

\* C11: for start_frame <= end_frame and paddings >= 0, extract_clip starts at
\* padded_start = max(0, start_frame - CLIP_PADDING_BEFORE) >= 0, uses padding_before =
\* min(start_frame, CLIP_PADDING_BEFORE) and returns (end_frame - start_frame + 1) +
\* padding_before + CLIP_PADDING_AFTER frames; a chunk that starts at frame 0 gets
\* padding_before = 0 and the frames after it stay CLIP_PADDING_AFTER.
C11_ExtractClipPadding ==
  (pc = "returned" /\ call.fn = "extract_clip") =>
    LET content == call.end_frame - call.start_frame + 1
    IN  /\ call.ret.padded_start = Max(0, call.start_frame - call.before)
        /\ call.ret.padded_start >= 0
        /\ call.ret.padding_before = Min(call.start_frame, call.before)
        /\ call.ret.total_frames = content + call.ret.padding_before + call.after
        /\ call.start_frame = 0 =>
             /\ call.ret.padding_before = 0
             /\ call.ret.total_frames = content + call.after

\* a chunk at frame 0 with 30 frames of padding before it
C11_Witness ==
  /\ pc = "returned"
  /\ call.fn = "extract_clip"
  /\ call.start_frame = 0
  /\ call.end_frame = 2
  /\ call.before = 30
  /\ call.after = 1
  /\ call.ret.total_frames = 4

\* the frame range of the clip from which the thumbnail's padding is taken
ContentStart(chunk) == IF chunk.type # "insert" THEN chunk.v1_start ELSE chunk.v2_start

ContentEnd(chunk) == IF chunk.type # "insert" THEN chunk.v1_end ELSE chunk.v2_end

\* C12: the thumbnail frame is padding_used + content_count // 2, with padding_used =
\* min(chunk start, CLIP_PADDING_BEFORE) and content_count = v1_count for replace and
\* delete, v2_count for insert; its source is the diff clip for replace, the video1
\* clip for delete and the video2 clip for insert; the frame lies in the content
\* region of the padded clip, padding_used <= frame < padding_used + content_count,
\* which is the region extract_clip leaves between the two paddings whatever
\* CLIP_PADDING_AFTER is.
C12_ThumbnailFrame ==
  (pc = "returned" /\ call.fn = "thumbnail") =>
    LET chunk         == call.chunk
        padding_used  == Min(ContentStart(chunk), call.before)
        content_count == IF chunk.type \in {"replace", "delete"} THEN chunk.v1_count
                         ELSE chunk.v2_count
    IN  /\ call.ret.frame = padding_used + content_count \div 2
        /\ chunk.type = "replace" => call.ret.source = ClipPath(call.i, "diff.mp4")
        /\ chunk.type = "delete" => call.ret.source = ClipPath(call.i, "video1.mp4")
        /\ chunk.type = "insert" => call.ret.source = ClipPath(call.i, "video2.mp4")
        /\ padding_used <= call.ret.frame
        /\ call.ret.frame < padding_used + content_count
        /\ \A after \in Paddings :
             LET clip == extract_clip(ContentStart(chunk), ContentEnd(chunk),
                                      call.before, after)
             IN  /\ clip.padding_before <= call.ret.frame
                 /\ call.ret.frame < clip.total_frames - after

\* a delete chunk of three frames that starts at frame 1, with 30 frames of padding:
\* one frame of padding is used and the thumbnail is frame 2 of the video1 clip
C12_Witness ==
  /\ pc = "returned"
  /\ call.fn = "thumbnail"
  /\ call.chunk.type = "delete"
  /\ call.chunk.v1_start = 1
  /\ call.chunk.v1_count = 3
  /\ call.before = 30
  /\ call.ret.frame = 2
  /\ call.ret.source = ClipPath(call.i, "video1.mp4")

\* extract_chunk_clips has returned clip_sets to main()
Extracted == pc \in {"report", "write", "open", "join", "exit", "done"}

\* C13: under every interleaving of the chunk tasks, the records collected so far are
\* those of the first chunks in chunk order (the record at position k is built from
\* chunk k and from the files of task k), and the list extract_chunk_clips returns
\* has one record per chunk.
C13_ClipSetsInChunkOrder ==
  /\ Len(clip_sets) <= Len(chunks)
  /\ \A k \in 1 .. Len(clip_sets) :
       /\ clip_sets[k].thumb[1] = k - 1
       /\ [f \in {"type", "v1_start", "v1_end", "v1_count", "v2_start", "v2_end", "v2_count"}
             |-> clip_sets[k][f]] =
          [f \in {"type", "v1_start", "v1_end", "v1_count", "v2_start", "v2_end", "v2_count"}
             |-> chunks[k][f]]
       /\ clip_sets[k] = ClipSet(chunks[k], clips[k], thumbs[k])
  /\ Extracted => Len(clip_sets) = Len(chunks)

\* the task of the second chunk has returned while the task of the first chunk is at
\* its last section: the loop over the futures waits for the first and has taken
\* nothing
C13_Witness ==
  /\ pc = "collect"
  /\ Len(chunks) = 2
  /\ tpc[2] = "done"
  /\ tpc[1] = "thumb"
  /\ clip_sets = <<>>

\* the one thread or task that writes the path
WriterOf(path) ==
  IF path = DiffVideoPath THEN DiffThread
  ELSE IF path = ReportPath THEN MainThread
  ELSE ChunkTask(path[1])

\* C14: every file written in a run has one writer: the paths of the task of chunk i
\* carry the index i and so differ from those of every other task and from the full
\* diff video of the background thread; and what a task reads (the two clips for its
\* diff clip, the source of its thumbnail) the same task has written before.
C14_OneWriterPerPath ==
  /\ Cardinality({w[1] : w \in writes}) = Cardinality(writes)
  /\ \A w \in writes : w[2] = WriterOf(w[1])
  /\ reads \subseteq writes
  /\ files = {w[1] : w \in writes}

\* two replace chunks, both tasks at their thumbnail section with their three clips
\* written and the two clips read, and the full diff video written meanwhile
C14_Witness ==
  /\ pc = "collect"
  /\ tpc = <<"thumb", "thumb">>
  /\ chunks[1].type = "replace"
  /\ chunks[2].type = "replace"
  /\ dthread = "done"
  /\ Cardinality(writes) = 7
  /\ Cardinality(reads) = 4

\* a subprocess of some chunk task has failed
ChunkFailed == \E n \in 1 .. Len(tpc) : tpc[n] = "failed"

\* C15: if a subprocess of a chunk task fails (clip extraction, diff blend or
\* thumbnail), in whatever task and whatever the other tasks do, main() never gets
\* clip_sets back: the exception leaves extract_chunk_clips and main(), no HTML
\* report is written, no browser is opened, and the process ends with status 1.
C15_ChunkFailureAborts ==
  ChunkFailed =>
    /\ pc \in {"collect", "shutdown", "raise", "aborted"}
    /\ ~html_written
    /\ ~browser_opened
    /\ ReportPath \notin files
    /\ pc \in {"raise", "aborted"} => error = "process_chunk"
    /\ pc = "aborted" => exit_code = 1

\* the first task returned and was collected, the diff blend of the second failed,
\* and the run has ended
C15_Witness ==
  /\ pc = "aborted"
  /\ Len(chunks) = 2
  /\ tpc = <<"done", "failed">>
  /\ chunks[2].type = "replace"
  /\ clips[2].video2 # None
  /\ clips[2].diff = None
  /\ Len(clip_sets) = 1
  /\ error = "process_chunk"
  /\ exit_code = 1

\* the process has ended
Ended == pc \in {"done", "aborted"}

\* a subprocess of the run has exited non-zero: hashing, a chunk task's clip
\* extraction, blend or thumbnail, or the blend of the background thread
ToolFailed ==
  \/ error = "extract_framehashes"
  \/ ChunkFailed
  \/ dthread = "failed"

\* C16: every failure of an external tool, the blend of the background thread
\* included, is fatal: a run in which one has failed ends aborted, without an HTML
\* report and with a non-zero exit status.
C16_ToolFailureFatal ==
  (Ended /\ ToolFailed) =>
    /\ pc = "aborted"
    /\ ~html_written
    /\ exit_code # 0

\* compute_diff_chunks has been entered
AlignmentBegun ==
  pc \in {"match", "scan", "opcodes", "chunks", "count", "shutdown"} \cup AfterCount
  \/ (pc \in {"raise", "aborted"} /\ error \notin {"parser.error", "extract_framehashes"})

\* C17: input errors are found before the alignment: a missing video file ends the
\* run with a non-zero status before anything else is done, and the frame rate has
\* been read and parsed by the time compute_diff_chunks is entered, in every run.
C17_InputErrorsBeforeAlignment ==
  /\ error = "parser.error" => (pc = "aborted" /\ exit_code # 0 /\ dthread = "unstarted")
  /\ AlignmentBegun => fps # "unread"

\* C18: the exit status is 0 only if the two hash lists are equal and no fatal error
\* (a failed external tool, an exception) occurred; it is non-zero for every pair of
\* different lists.
C18_ExitStatus ==
  Ended =>
    /\ exit_code = 0 => (hashes1 = hashes2 /\ error = "" /\ ~ToolFailed)
    /\ (pc = "done" /\ hashes1 # hashes2) => exit_code # 0
    /\ (error # "" \/ ToolFailed) => exit_code # 0

\* both videos were hashed and have no frame
BothEmpty ==
  /\ AlignmentBegun
  /\ hashes1 = <<>>
  /\ hashes2 = <<>>

\* C19: when both hash lists are empty, main() finds no chunk, reads no frame rate
\* and starts no chunk task, builds the report without dividing by total_frames = 0,
\* classifies the videos as identical and returns 0: nothing raises.
C19_EmptyVideos ==
  BothEmpty =>
    /\ error = ""
    /\ pc \notin {"fps", "extract", "collect", "shutdown", "raise", "aborted"}
    /\ chunks = <<>>
    /\ diff_frame_count = 0
    /\ fps = "unread"
    /\ tpc = <<>>
    /\ clip_sets = <<>>
    /\ pc \in {"write", "open", "join", "exit", "done"} =>
         /\ result.kind = "identical"
         /\ result.total_frames = 0
         /\ result.percent = None
    /\ pc = "done" => (exit_code = 0 /\ html_written)

C19_Witness ==
  /\ pc = "done"
  /\ hashes1 = <<>>
  /\ hashes2 = <<>>
  /\ result.kind = "identical"
  /\ result.total_frames = 0
  /\ fps = "unread"
  /\ html_written
  /\ exit_code = 0

\* the lists of a list of lists, one after the other
RECURSIVE Flatten(_)
Flatten(lists) ==
  IF lists = <<>> THEN <<>>
  ELSE Flatten(SubSeq(lists, 1, Len(lists) - 1)) \o lists[Len(lists)]

\* the chunk that holds the k-th index of the input
ChunkOfPosition(lists, k) ==
  CHOOSE c \in 1 .. Len(lists) :
    /\ Len(Flatten(SubSeq(lists, 1, c - 1))) < k
    /\ k <= Len(Flatten(SubSeq(lists, 1, c)))

\* C20: compute_chunks(indices, max_same_frames), max_same_frames 0 when not given,
\* returns non-empty chunks that partition the increasing list of indices in order;
\* two consecutive indices are in the same chunk exactly when at most
\* max_same_frames identical frames lie between them; and
\* compute_chunks([5,6,9,20], 2) = [[5,6,9],[20]].
C20_ToleranceMerge ==
  (pc = "returned" /\ call.fn = "compute_chunks") =>
    LET indices == call.indices
        tolerance == IF call.given THEN call.max_same_frames ELSE 0
    IN  /\ Flatten(call.ret) = indices
        /\ \A c \in 1 .. Len(call.ret) : call.ret[c] # <<>>
        /\ \A k \in 1 .. (Len(indices) - 1) :
             (ChunkOfPosition(call.ret, k) = ChunkOfPosition(call.ret, k + 1))
               <=> (indices[k + 1] - indices[k] - 1 <= tolerance)
        /\ (indices = <<5, 6, 9, 20>> /\ call.given /\ call.max_same_frames = 2) =>
             call.ret = <<(<<5, 6, 9>>), (<<20>>)>>

C20_Witness ==
  /\ pc = "returned"
  /\ call.fn = "compute_chunks"
  /\ call.indices = <<5, 6, 9, 20>>
  /\ call.given
  /\ call.max_same_frames = 2
  /\ call.ret = <<(<<5, 6, 9>>), (<<20>>)>>

\* C21 as stated: once the HTML report is written (and then opened), the background
\* thread has ended, so the full diff video the report refers to is complete.
C21_DiffVideoBeforeReport ==
  (html_written \/ browser_opened) => dthread # "running"

\* C21 amended: the report may be written and opened while the background thread
\* still runs; main() joins the thread after that, so when the process ends the
\* thread has ended, and if its blend succeeded the full diff video is written.
C21_DiffThreadEndedAtExit ==
  /\ pc \in {"exit", "done"} => dthread \in {"done", "failed"}
  /\ Ended => dthread # "running"
  /\ dthread = "done" => DiffVideoPath \in files

\* a run that wrote and opened the report and ended with the full diff video written
C21_Witness ==
  /\ pc = "done"
  /\ html_written
  /\ browser_opened
  /\ dthread = "done"
  /\ DiffVideoPath \in files
  /\ ReportPath \in files

\* C22: the differing-frame count never exceeds total_frames = max(len(hashes1),
\* len(hashes2)), so the percentage of the report lies between 0 and 100.
C22_CountWithinTotal ==
  pc \in {"write", "open", "join", "exit", "done"} =>
    LET total_frames == Max(Len(hashes1), Len(hashes2))
    IN  /\ diff_frame_count <= total_frames
        /\ result.kind = "different" =>
             (0 <= result.percent[1] /\ result.percent[1] <= 100 * result.percent[2])

\* positions of run_replay at and after its main loop
InReplay == pc \in {"replay_loop", "replay_after", "replay_raised"}

\* the frame numbers of a script never decrease
Nondecreasing(s) == \A k \in 1 .. (Len(s) - 1) : s[k][1] <= s[k + 1][1]

\* C23: the script build_script returns has non-decreasing frame numbers; the main
\* loop of run_replay handles every script entry once, in script order, in the
\* iteration whose frame counter is the entry's frame, handling an entry never stops
\* the loop, and the loop is left by its break only when every entry was handled.
C23_EveryEntryHandledAtItsFrame ==
  InReplay =>
    /\ Nondecreasing(script)
    /\ script_index = Len(handled)
    /\ \A k \in 1 .. Len(handled) : handled[k] = <<k, script[k][1]>>
    /\ pc = "replay_loop" =>
         \A k \in 1 .. Len(script) : script[k][1] < frame => k <= Len(handled)
    /\ error # "AttributeError"

\* C24: a replay run for variant 'mici' replays the events of build_mici_script on the
\* mici layout, a run for variant 'tizi' those of build_tizi_script on the tizi layout.
C24_ScriptOfVariant ==
  InReplay =>
    /\ variant = "mici" =>
         /\ main_layout = "MiciMainLayout"
         /\ script = build_mici_script(NewScript).script
    /\ variant = "tizi" =>
         /\ main_layout = "MainLayout"
         /\ script = build_tizi_script(NewScript).script

\* C25: once a setup made by setup_send_fn has run, its sender is the persistent
\* sender of the loop: the loop's sender is the one installed last, it is never none
\* again, and it is called in every frame the loop completes from then on.
C25_PersistentSender ==
  InReplay =>
    /\ _frame_fn # None => send_fn = _frame_fn
    /\ \A k \in 1 .. Len(sent) :
         \A g \in sent[k][1] .. (frame - 1) : \E m \in 1 .. Len(sent) : sent[m][1] = g

\* the entries a click leaves in a script s from index n on, the builder being at
\* frame f before it
ClickEntries(s, n, f, pos, wait_frames) ==
  /\ Len(s) >= n + 2
  /\ s[n + 1][1] = f
  /\ s[n + 2][1] = f + 1
  /\ LET down == s[n + 1][2].mouse_events
         up   == s[n + 2][2].mouse_events
     IN  /\ Len(down) = 1 /\ Len(up) = 1
         /\ down[1].left_pressed /\ ~down[1].left_released
         /\ up[1].left_released /\ ~up[1].left_pressed
         /\ down[1].pos = pos /\ up[1].pos = pos
         /\ down[1].slot = up[1].slot
  /\ wait_frames > 0 => (Len(s) >= n + 3 /\ s[n + 3] = <<f + 1 + wait_frames,
                                                       ScriptEvent(None, None)>>)
  /\ \A m \in (n + 3) .. Len(s) : s[m][1] >= f + 1 + wait_frames

\* C26: click(x, y, wait_frames) adds a press at the current script frame f and,
\* right after it, the release at frame f + 1 with the same position and slot,
\* followed when wait_frames > 0 by a no-op entry at frame f + 1 + wait_frames; no
\* later entry is scheduled before frame f + 1 + wait_frames, so a press is never
\* added between a press and its release.
C26_ClickPressThenRelease ==
  (pc = "returned" /\ call.fn = "builder") =>
    \A k \in 1 .. Len(call.ops) :
      call.ops[k].op = "click" =>
        LET before == RunOps(call.ops, k - 1)
        IN  ClickEntries(call.ret.script, Len(before.script), before.frame,
                         call.ops[k].pos, call.ops[k].wait_frames)

\* two clicks, the first without a wait: the second press is scheduled in the frame
\* of the first release, after it
C26_Witness ==
  /\ pc = "returned"
  /\ call.fn = "builder"
  /\ Len(call.ops) = 2
  /\ call.ops[1].op = "click" /\ call.ops[1].wait_frames = 0
  /\ call.ops[2].op = "click" /\ call.ops[2].wait_frames = 2
  /\ Len(call.ret.script) = 5
  /\ call.ret.script[2][1] = 1
  /\ call.ret.script[3][1] = 1
  /\ call.ret.script[3][2].mouse_events[1].left_pressed
  /\ call.ret.frame = 4

\* the action types execute_action knows
KnownActions == {"click", "long_press", "swipe", "set_param", "pump"}

\* run_replay of explorer.py is about to execute the next action of the recording
AtAction == pc = "engine_actions" /\ next_action < Len(recording)

\* C27: execute_action appends the action to the engine's action log once, after the
\* action ran to completion, so the log is the list of the actions executed
\* successfully, in order; an action that raises is not logged, and an unknown action
\* type raises ValueError and leaves the log, the frame counter and the queued mouse
\* events as they were.
C27_LogAfterCompletion ==
  /\ [](pc \in {"engine_actions", "engine_raised", "engine_replayed"} =>
          (recording # NotAList => _action_log = SubSeq(recording, 1, next_action)))
  /\ [][AtAction =>
          LET action == recording[next_action + 1]
          IN  /\ error' = "" => (_action_log' = Append(_action_log, action)
                                 /\ next_action' = next_action + 1)
              /\ error' # "" => _action_log' = _action_log
              /\ action.action \notin KnownActions =>
                   /\ error' = "ValueError"
                   /\ UNCHANGED <<_action_log, _frame, mouse_events>>]_vars

\* a click was executed and logged, then an action of an unknown type raised
C27_Witness ==
  /\ pc = "engine_raised"
  /\ error = "ValueError"
  /\ Len(recording) = 2
  /\ recording[2].action = "tap"
  /\ _action_log = <<recording[1]>>
  /\ recording[1].action = "click"
  /\ Len(mouse_events) = 2

\* an event that presses or releases the button
PressOrRelease(event) == event.left_pressed \/ event.left_released

\* the presses and releases among the events alternate, a press first and a release
\* last, each release on the slot of the press before it: every press is followed by
\* exactly one release on its slot before any other press
Balanced(events) ==
  With(SelectSeq(events, PressOrRelease), LAMBDA taps :
    /\ Len(taps) % 2 = 0
    /\ \A k \in 1 .. Len(taps) :
         IF k % 2 = 1
         THEN taps[k].left_pressed /\ ~taps[k].left_released
         ELSE /\ taps[k].left_released /\ ~taps[k].left_pressed
              /\ taps[k].slot = taps[k - 1].slot)

\* no action of run_replay is under way
AtRest == pc \in {"engine_actions", "engine_replayed"}

\* the events the step queued
Queued == SubSeq(mouse_events', Len(mouse_events) + 1, Len(mouse_events'))

\* the events of a completed click or swipe: the release of a click follows its press
\* at the same position; a swipe presses at (x1, y1), moves, and releases last, at
\* (x2, y2)
ClickOrSwipeReleased(action) ==
  /\ action.action = "click" =>
       /\ Len(Queued) = 2
       /\ Queued[1].left_pressed /\ Queued[2].left_released
       /\ Queued[1].pos = Queued[2].pos
  /\ action.action = "swipe" =>
       /\ Len(Queued) >= 2
       /\ Queued[1].left_pressed /\ Queued[1].pos = <<action.x1, action.y1>>
       /\ Queued[Len(Queued)].left_released
       /\ Queued[Len(Queued)].pos = <<action.x2, action.y2>>
       /\ \A m \in 2 .. (Len(Queued) - 1) :
            Queued[m].left_down /\ ~Queued[m].left_pressed /\ ~Queued[m].left_released

\* the events of a completed long press: the press, then its release
LongPressReleased(action) ==
  action.action = "long_press" =>
    /\ Len(Queued) = 2
    /\ Queued[1].left_pressed /\ Queued[2].left_released
    /\ Queued[1].pos = Queued[2].pos

\* C28 as stated: after completed actions every press is followed by exactly one
\* release on its slot; the release of a long press is queued at least one pumped
\* frame after the press, that of a swipe after all moves and at (x2, y2), also when
\* the render generator is exhausted or steps is 0.
C28_PressReleased ==
  /\ [](AtRest => Balanced(mouse_events))
  /\ [][(AtAction /\ error' = "") =>
          LET action == recording[next_action + 1]
          IN  /\ ClickOrSwipeReleased(action)
              /\ LongPressReleased(action)
              /\ action.action = "long_press" => Queued[2].t[1] >= Queued[1].t[1] + 1]_vars

\* C28 amended: the release of a long press is queued at least one pumped frame
\* after the press as long as the render generator yields a frame; once it is
\* exhausted, pump returns at once and the release is queued right after the press.
C28_PressReleasedWhileRendering ==
  /\ [](AtRest => Balanced(mouse_events))
  /\ [][(AtAction /\ error' = "") =>
          LET action == recording[next_action + 1]
          IN  /\ ClickOrSwipeReleased(action)
              /\ LongPressReleased(action)
              /\ (action.action = "long_press" /\ _render_gen # <<0>>) =>
                   Queued[2].t[1] >= Queued[1].t[1] + 1
              /\ (action.action = "long_press" /\ _render_gen = <<0>>) =>
                   Queued[2].t[1] = Queued[1].t[1]]_vars

\* a long press held for one of the two frames the generator had left, then a swipe
\* of no steps with the generator exhausted: both were released
C28_Witness ==
  /\ pc = "engine_replayed"
  /\ Len(recording) = 2
  /\ recording[1].action = "long_press"
  /\ recording[2].action = "swipe" /\ "steps" \in DOMAIN recording[2]
  /\ recording[2].steps = 0
  /\ _render_gen = <<0>>
  /\ _frame = 32
  /\ Len(mouse_events) = 4
  /\ mouse_events[1].t[1] = 30 /\ mouse_events[2].t[1] = 32
  /\ mouse_events[4].left_released
  /\ mouse_events[4].pos = <<recording[2].x2, recording[2].y2>>

\* C29: the recording run_auto_explore writes holds, in order, every operation the
\* exploration applied to the UI after the engine was set up, each of them an
\* execute_action, so run_replay applies the same operations for that recording.
C29_RecordingReplaysExploration ==
  pc = "explore_done" =>
    SubSeq(applied, 2, Len(applied))
      = SubSeq(ReplayApplies(recording), 2, Len(recording) + 1)

\* every node of the WidgetInfo tree is at most max_depth deep, a node at max_depth
\* has no children, and every child is one deeper than its parent
RECURSIVE DepthsRight(_)
DepthsRight(info) ==
  /\ info.depth <= max_depth
  /\ info.depth = max_depth => info.children = <<>>
  /\ \A k \in 1 .. Len(info.children) :
       /\ info.children[k].depth = info.depth + 1
       /\ DepthsRight(info.children[k])

\* C30: walk_widget_tree returns for every widget graph, also one in which a widget
\* is reachable from itself or is held by several widgets: no more than
\* max_depth + 1 calls are under way at a time; and the tree it returns starts at
\* depth 0, has no node deeper than max_depth, no children under a node at
\* max_depth, and every child one deeper than its parent.
C30_WalkReturnsWithinMaxDepth ==
  /\ <>(pc = "walked")
  /\ [](Len(stack) <= max_depth + 1)
  /\ [](pc = "walked" => (tree.depth = 0 /\ DepthsRight(tree)))

\* the layout and the panel hold each other and both hold the label: the walk
\* returned with the layout again under the panel, at max_depth, without children
C30_Witness ==
  /\ pc = "walked"
  /\ max_depth = 2
  /\ holds["layout"] = <<"panel", "label">>
  /\ holds["panel"] = <<"layout", "label">>
  /\ Len(tree.children) = 2
  /\ tree.children[1].widget = "panel"
  /\ Len(tree.children[1].children) = 2
  /\ tree.children[1].children[1].widget = "layout"
  /\ tree.children[1].children[1].depth = 2
  /\ tree.children[1].children[1].children = <<>>
  /\ tree.children[2].widget = "label"
  /\ tree.children[1].children[2].widget = "label"

====
